---- MODULE Spec2Model ----
(***************************************************************************)
(* Model of the iphoneclaw agent core: WorkerControl (supervisor/state.py), *)
(* SupervisorHub (supervisor/hub.py), L0Cache / L0Router (automation/) and  *)
(* Worker.run (agent/loop.py).                                              *)
(*                                                                          *)
(* Specifications:                                                          *)
(*   SpecControl  WorkerControl driven by arbitrary calls from any thread   *)
(*   SpecCache    L0Cache driven through L0Router's lookup/verify protocol  *)
(*   SpecL0Cache  L0Cache driven by arbitrary method calls                  *)
(*   SpecStore    L0Cache.store called with any actions on any entry        *)
(*   SpecFingerprint  hamming_distance applied to any two hashes            *)
(*   SpecHub      SupervisorHub with subscribers and two publishing threads *)
(*   SpecHubStatus  hub.set_status / get_status called from two threads     *)
(*   SpecConv     ConversationStore.add, the tail window, a racing reader   *)
(*   Spec         Worker.run with a supervisor thread                       *)
(*   FairSpec     Spec without guidance, the loop thread scheduled fairly   *)
(*   LiveSpec     FairSpec with every pause followed by a resume() or stop() *)
(*   SpecGuidance Worker.run with stop() and any guidance string injected   *)
(*   SpecMonitor  Spec with the user-input monitor thread                   *)
(***************************************************************************)
EXTENDS Integers, Sequences, FiniteSets, TLC

\* ------------------------------------------------------------------ bounds
MaxInjected == 2      \* inject() calls made in one behaviour of SpecControl
MaxGuidance == 1      \* inject() calls made by the supervisor during a run
FpBits == 2           \* width of a fingerprint (64 in fingerprint.py)
MaxThreshold == 1     \* hash_threshold is drawn from 0..MaxThreshold
MaxStep == 3          \* cycles driven through the router in one behaviour
MaxCalls == 5         \* L0Cache method calls made in one behaviour of SpecL0Cache
MaxStoreCalls == 3    \* L0Cache method calls made in one behaviour of SpecStore
max_reuse == 1        \* L0Cache(max_reuse=...)
max_entries == 2      \* L0Cache(max_entries=...)
max_loop_count == 3   \* cfg.max_loop_count
QueueMaxsize == 1     \* queue.Queue(maxsize=...) of a subscriber (1000 in hub.py)
MaxSubs == 2          \* subscribe() calls made in one behaviour of SpecHub
MaxEvents == 2        \* publish() calls made in one behaviour of SpecHub
MaxItems == 5         \* conversation items added in one behaviour of SpecConv
MaxRounds == 3        \* tail_rounds is drawn from 1..MaxRounds
LoopTailRounds == 1   \* tail_rounds the loop passes to to_openai_messages (8 in loop.py)
HashBits == 4         \* width of the hashes handed to hamming_distance on its own

\* ------------------------------------------------------------- value sets
Statuses == {"INIT", "RUNNING", "PAUSE", "HANG", "ERROR", "END", "CALL_USER",
             "USER_STOPPED"}
GuidanceSeq == <<"g1", "", "g2">>
GuidanceTexts == {GuidanceSeq[k] : k \in 1 .. Len(GuidanceSeq)}
None == "None"
\* the None of an Optional[int] fingerprint
NoFp == 0 - 1
Fingerprints == 0 .. (2 ^ FpBits - 1)
\* _UNCACHEABLE_ACTIONS (router.py)
UNCACHEABLE_ACTIONS == {"finished", "call_user", "error_env"}
\* action lists handed to record(): empty, cacheable, uncacheable, mixed
PostFingerprints == {NoFp, 1}
ActionLists == {<<>>, <<"click">>, <<"finished">>, <<"click", "error_env">>}
NoArgs == [actions |-> <<>>, post_fp |-> NoFp, success |-> TRUE]

\* ---------------------------------------------------------------- state
VARIABLES
    status, paused, stopped, injected,   \* WorkerControl fields
    popRet,                              \* value returned by the last pop_injected()
    stopCalled,                          \* history: stop() has been called
    injectCount,                         \* history: number of inject() calls
    ctlCall,                             \* history: the last WorkerControl method
                                         \* called in SpecControl, and its argument
    entries,          \* L0Cache._entries, in dict (insertion) order
    hash_threshold,   \* L0Cache.hash_threshold
    rpc,              \* position in the router protocol: idle / hit / miss
    rstep,            \* step number handed to the router
    curFp,            \* fingerprint handed to try_cache in this cycle
    hit,              \* entry returned by try_cache: index into entries, 0 for None
    args,             \* locals of the cycle: actions, post_fp, success
    lastCall,         \* the last router call and what it returned
    hub_last_status,  \* SupervisorHub._last_status
    lastPub,          \* history: the last event the loop thread published
    conv,             \* ConversationStore._items
    hang_on_finished, hang_on_call_user,   \* cfg
    pc,               \* position of the loop thread in Worker.run
    step, parse_err_streak,                \* locals of Worker.run
    snap,             \* status read by the last control.snapshot()
    pred,             \* action_type of the first parsed prediction
    err,              \* str(e) of the exception being handled
    mpc, msnap,       \* monitor thread: position in _on_act, its snapshot
    monStopping,      \* UserInputMonitor._stopping
    nCapture, nInvoke, nExecute,   \* history: collaborator calls made
    exit,             \* history: the return statement that ended run()
    pauseCalled,      \* history: pause() was called and no resume() since
    startedSincePause,  \* history: a cycle passed the pause gate since pause()
    routerCalls,      \* history: L0Router methods called in this cycle
    parseLog,         \* history: per model reply of the last three cycles,
                      \* whether its first parsed action was a parse error
    injLog,           \* history: the texts passed to inject(), in lock order
    popLog,           \* history: the non-None values pop_injected() returned
    statsRet,         \* value returned by the last L0Cache.stats()
    entriesBefore,    \* history: L0Cache._entries before the last L0Cache call
    subs,             \* SupervisorHub._subs: the registered queues, by number
    queues,           \* contents of every queue subscribe() has created
    pubLeft,          \* publish(), per thread: queues of its copy of _subs not yet served
    pubEvt,           \* publish(), per thread: the event being delivered, 0 when none
    nPub,             \* history: publish() calls made
    taken,            \* history, per queue and publishing thread: the last event
                      \* of that thread the subscriber has taken, 0 when none
    tailN, tailRet,   \* argument and result of the last _tail_items_by_rounds
    hubCall,          \* hub.set_status(status), per thread: the status of the call
                      \* that has stored _last_status and not yet published, ""
                      \* when none
    reader            \* a second thread reading the conversation: where it is in
                      \* items() / _tail_items_by_rounds(n), its copy of the list
                      \* and what it returned

controlVars == <<status, paused, stopped, injected>>
controlHist == <<popRet, stopCalled, injectCount, ctlCall>>
cacheVars == <<entries, hash_threshold, rpc, rstep, curFp, hit, args, lastCall>>
hubVars == <<hub_last_status, lastPub>>
cfgVars == <<hang_on_finished, hang_on_call_user>>
localVars == <<pc, step, parse_err_streak, snap, pred, err>>
monVars == <<mpc, msnap, monStopping>>
callCounts == <<nCapture, nInvoke, nExecute>>
pauseHist == <<pauseCalled, startedSincePause>>
guidHist == <<injLog, popLog>>
\* state of the components that WorkerControl, L0Router and Worker.run never touch
l0Vars == <<statsRet, entriesBefore>>
hubQVars == <<subs, queues, pubLeft, pubEvt, nPub, taken>>
tailVars == <<tailN, tailRet, reader>>
extraVars == <<l0Vars, hubQVars, tailVars, hubCall>>
loopVars == <<conv, cfgVars, localVars, monVars, callCounts, exit, pauseHist,
              routerCalls, parseLog>>
vars == <<status, paused, stopped, injected, popRet, stopCalled, injectCount, ctlCall,
          entries, hash_threshold, rpc, rstep, curFp, hit, args, lastCall,
          hub_last_status, lastPub, conv, hang_on_finished, hang_on_call_user,
          pc, step, parse_err_streak, snap, pred, err, mpc, msnap, monStopping,
          nCapture, nInvoke, nExecute, exit, pauseCalled, startedSincePause,
          routerCalls, parseLog, injLog, popLog, statsRet, entriesBefore,
          subs, queues, pubLeft, pubEvt, nPub, taken, tailN, tailRet, reader, hubCall>>

\* ------------------------------------------------- WorkerControl (state.py)
\* The body of each method runs under self._lock, so each is one atomic step.

\* pause() that sets PAUSE whatever the status was
pause_AnyStatus ==
    /\ paused' = TRUE
    /\ status' = "PAUSE"
    /\ UNCHANGED <<stopped, injected>>

pause ==
    /\ paused' = TRUE
    /\ status' = IF status = "RUNNING" THEN "PAUSE" ELSE status
    /\ UNCHANGED <<stopped, injected>>

\* resume() that sets RUNNING whatever the status was
resume_AnyStatus ==
    /\ paused' = FALSE
    /\ status' = "RUNNING"
    /\ UNCHANGED <<stopped, injected>>

resume ==
    /\ paused' = FALSE
    /\ status' = IF status \in {"PAUSE", "HANG"} THEN "RUNNING" ELSE status
    /\ UNCHANGED <<stopped, injected>>

stop ==
    /\ stopped' = TRUE
    /\ status' = "USER_STOPPED"
    /\ UNCHANGED <<paused, injected>>

\* set_status without the "Do not override stopped state" branch.
set_status_NoStopGuard(s) ==
    /\ status' = IF paused /\ s = "RUNNING" THEN status ELSE s
    /\ UNCHANGED <<paused, stopped, injected>>

\* set_status without the "If paused, keep PAUSE/HANG" branch.
set_status_NoPauseGuard(s) ==
    /\ status' = IF stopped THEN "USER_STOPPED" ELSE s
    /\ UNCHANGED <<paused, stopped, injected>>

set_status(s) ==
    /\ status' = IF stopped THEN "USER_STOPPED"
                 ELSE IF paused /\ s = "RUNNING" THEN status
                 ELSE s
    /\ UNCHANGED <<paused, stopped, injected>>

inject(text) ==
    /\ injected' = Append(injected, text)
    /\ UNCHANGED <<status, paused, stopped>>

\* pop_injected returning the newest string instead of the oldest.
pop_injected_value_Last == IF injected = <<>> THEN None ELSE injected[Len(injected)]

\* pop_injected: the returned value, and the queue it leaves.
pop_injected_value == IF injected = <<>> THEN None ELSE Head(injected)

pop_injected ==
    /\ injected' = IF injected = <<>> THEN injected ELSE Tail(injected)
    /\ UNCHANGED <<status, paused, stopped>>

\* ------------------------------------------- calls made by any thread
\* A call and its argument.
Call(op, arg) == [op |-> op, arg |-> arg]

CallPause ==
    /\ pause
    /\ ctlCall' = Call("pause", "")
    /\ UNCHANGED <<popRet, stopCalled, injectCount, guidHist>>

CallResume ==
    /\ resume
    /\ ctlCall' = Call("resume", "")
    /\ UNCHANGED <<popRet, stopCalled, injectCount, guidHist>>

CallStop ==
    /\ stop
    /\ stopCalled' = TRUE
    /\ ctlCall' = Call("stop", "")
    /\ UNCHANGED <<popRet, injectCount, guidHist>>

CallSetStatus ==
    /\ \E s \in Statuses : set_status(s) /\ ctlCall' = Call("set_status", s)
    /\ UNCHANGED <<popRet, stopCalled, injectCount, guidHist>>

CallInject ==
    /\ injectCount < MaxInjected
    /\ \E t \in GuidanceTexts :
           inject(t) /\ injLog' = Append(injLog, t) /\ ctlCall' = Call("inject", t)
    /\ injectCount' = injectCount + 1
    /\ UNCHANGED <<popRet, stopCalled, popLog>>

CallPopInjected ==
    /\ popRet' = pop_injected_value
    /\ pop_injected
    /\ popLog' = IF popRet' = None THEN popLog ELSE Append(popLog, popRet')
    /\ ctlCall' = Call("pop_injected", "")
    /\ UNCHANGED <<stopCalled, injectCount, injLog>>

\* ------------------------------------------- fingerprint.py, cache.py
\* A distance that counts only the bits set in a and clear in b.
RECURSIVE hamming_distance_OneSided(_, _)
hamming_distance_OneSided(a, b) ==
    IF a = 0 /\ b = 0 THEN 0
    ELSE (IF a % 2 > b % 2 THEN 1 ELSE 0) + hamming_distance_OneSided(a \div 2, b \div 2)

\* hamming_distance(a, b): bin(a ^ b).count("1")
RECURSIVE hamming_distance(_, _)
hamming_distance(a, b) ==
    IF a = 0 /\ b = 0 THEN 0
    ELSE (IF a % 2 # b % 2 THEN 1 ELSE 0) + hamming_distance(a \div 2, b \div 2)

\* L0CacheEntry(...)
L0CacheEntry(fp, actions, post_fp, hits, stp, ok) ==
    [fingerprint |-> fp, actions |-> actions, post_fingerprint |-> post_fp,
     hit_count |-> hits, last_step |-> stp, succeeded |-> ok]

\* The loop of lookup() from entry i on, with the best entry so far (an index
\* into the dict order, 0 for None) and its distance.
RECURSIVE lookup_scan(_, _, _, _, _, _)
lookup_scan(es, thr, fp, i, best, best_dist) ==
    IF i > Len(es) THEN best
    ELSE IF ~es[i].succeeded THEN lookup_scan(es, thr, fp, i + 1, best, best_dist)
    ELSE IF es[i].hit_count >= max_reuse
         THEN lookup_scan(es, thr, fp, i + 1, best, best_dist)
    ELSE LET dist == hamming_distance(fp, es[i].fingerprint)
         IN  IF dist < best_dist
             THEN lookup_scan(es, thr, fp, i + 1, i, dist)
             ELSE lookup_scan(es, thr, fp, i + 1, best, best_dist)

\* lookup() that also takes an entry at the current best distance.
lookup_AcceptEqual(es, thr, fp) ==
    LET RECURSIVE scan(_, _, _)
        scan(i, best, best_dist) ==
            IF i > Len(es) THEN best
            ELSE IF ~es[i].succeeded \/ es[i].hit_count >= max_reuse
                 THEN scan(i + 1, best, best_dist)
            ELSE LET dist == hamming_distance(fp, es[i].fingerprint)
                 IN  IF dist <= best_dist THEN scan(i + 1, i, dist)
                     ELSE scan(i + 1, best, best_dist)
    IN  scan(1, 0, thr + 1)

\* lookup() that lets an entry be reused once more than max_reuse.
lookup_ReuseOffByOne(es, thr, fp) ==
    LET RECURSIVE scan(_, _, _)
        scan(i, best, best_dist) ==
            IF i > Len(es) THEN best
            ELSE IF ~es[i].succeeded \/ es[i].hit_count > max_reuse
                 THEN scan(i + 1, best, best_dist)
            ELSE LET dist == hamming_distance(fp, es[i].fingerprint)
                 IN  IF dist < best_dist THEN scan(i + 1, i, dist)
                     ELSE scan(i + 1, best, best_dist)
    IN  scan(1, 0, thr + 1)

lookup(es, thr, fp) == lookup_scan(es, thr, fp, 1, 0, thr + 1)

\* record_hit(entry, step): entry is the object at index i of the dict.
record_hit(es, i, stp) ==
    [es EXCEPT ![i].hit_count = @ + 1, ![i].last_step = stp]

\* Index of the key in dict order, 0 when absent.
IndexOfKey(es, fp) ==
    IF \E i \in 1 .. Len(es) : es[i].fingerprint = fp
    THEN CHOOSE i \in 1 .. Len(es) : es[i].fingerprint = fp
    ELSE 0

\* del self._entries[key]
RemoveAt(es, i) == [j \in 1 .. (Len(es) - 1) |-> IF j < i THEN es[j] ELSE es[j + 1]]

\* eviction of the first-inserted key instead of the least recently used
OldestIndex_First(es) == 1

\* min(self._entries, key=last_step): the first key of least last_step.
OldestIndex(es) ==
    CHOOSE i \in 1 .. Len(es) :
        /\ \A j \in 1 .. Len(es) : es[i].last_step <= es[j].last_step
        /\ \A j \in 1 .. (i - 1) : es[j].last_step > es[i].last_step

\* store() without the eviction at capacity
store_NoEvict(es, fp, actions, post_fp, stp) ==
    LET new == L0CacheEntry(fp, actions, post_fp, 0, stp, TRUE)
        at  == IndexOfKey(es, fp)
    IN  IF at = 0 THEN Append(es, new) ELSE [es EXCEPT ![at] = new]

\* store() that updates an entry already present instead of replacing it:
\* hit_count and succeeded are kept.
store_UpdatesInPlace(es, fp, actions, post_fp, stp) ==
    LET kept == IF Len(es) >= max_entries /\ IndexOfKey(es, fp) = 0
                THEN RemoveAt(es, OldestIndex(es))
                ELSE es
        at   == IndexOfKey(kept, fp)
    IN  IF at = 0
        THEN Append(kept, L0CacheEntry(fp, actions, post_fp, 0, stp, TRUE))
        ELSE [kept EXCEPT ![at] = L0CacheEntry(fp, actions, post_fp, kept[at].hit_count,
                                               stp, kept[at].succeeded)]

\* store(): assigning an existing key keeps its place in the dict; a new key
\* goes last.
store(es, fp, actions, post_fp, stp) ==
    LET kept == IF Len(es) >= max_entries /\ IndexOfKey(es, fp) = 0
                THEN RemoveAt(es, OldestIndex(es))
                ELSE es
        new  == L0CacheEntry(fp, actions, post_fp, 0, stp, TRUE)
        at   == IndexOfKey(kept, fp)
    IN  IF at = 0 THEN Append(kept, new) ELSE [kept EXCEPT ![at] = new]

\* evict(entry): self._entries.pop(entry.fingerprint, None)
evict(es, i) ==
    LET at == IndexOfKey(es, es[i].fingerprint)
    IN  IF at = 0 THEN es ELSE RemoveAt(es, at)

\* mark_failed that drops the entry instead of keeping it marked
mark_failed_Removes(es, i) == RemoveAt(es, i)

\* mark_failed(entry)
mark_failed(es, i) == [es EXCEPT ![i].succeeded = FALSE]

\* sum(1 for e in self._entries.values() if not e.succeeded), from entry i on
RECURSIVE CountFailed(_, _)
CountFailed(es, i) ==
    IF i > Len(es) THEN 0
    ELSE (IF ~es[i].succeeded THEN 1 ELSE 0) + CountFailed(es, i + 1)

\* sum(1 for e in self._entries.values() if e.hit_count >= self.max_reuse)
RECURSIVE CountExhausted(_, _)
CountExhausted(es, i) ==
    IF i > Len(es) THEN 0
    ELSE (IF es[i].hit_count >= max_reuse THEN 1 ELSE 0) + CountExhausted(es, i + 1)

\* stats()
stats(es) ==
    [total |-> Len(es), failed |-> CountFailed(es, 1),
     exhausted |-> CountExhausted(es, 1)]

\* ------------------------------------------------------------- router.py
\* try_cache() that answers a missing fingerprint with the first entry
try_cache_NoneHits(es, thr, fp) ==
    IF fp = NoFp THEN (IF es = <<>> THEN 0 ELSE 1) ELSE lookup(es, thr, fp)

try_cache(es, thr, fp) == IF fp = NoFp THEN 0 ELSE lookup(es, thr, fp)

\* verify_and_commit() that skips the "screen must have changed" branch.
verify_and_commit_NoEvict(es, i, post_fp, stp, success) ==
    IF ~success THEN [cache |-> mark_failed(es, i), ret |-> FALSE]
    ELSE [cache |-> record_hit(es, i, stp), ret |-> TRUE]

\* verify_and_commit(entry, post_fp, step, success): the cache it leaves and
\* the value it returns.
verify_and_commit(es, i, post_fp, stp, success) ==
    IF ~success THEN [cache |-> mark_failed(es, i), ret |-> FALSE]
    ELSE IF post_fp # NoFp /\ post_fp = es[i].fingerprint
         THEN [cache |-> evict(es, i), ret |-> FALSE]
    ELSE [cache |-> record_hit(es, i, stp), ret |-> TRUE]

\* should_cache_actions() that looks at the first action only
should_cache_actions_FirstOnly(actions) ==
    IF actions = <<>> THEN FALSE ELSE actions[1] \notin UNCACHEABLE_ACTIONS

should_cache_actions(actions) ==
    IF actions = <<>> THEN FALSE
    ELSE \A k \in 1 .. Len(actions) : actions[k] \notin UNCACHEABLE_ACTIONS

record(es, fp, actions, post_fp, stp) ==
    IF fp = NoFp THEN es
    ELSE IF ~should_cache_actions(actions) THEN es
    ELSE store(es, fp, actions, post_fp, stp)

\* ------------------------------- the router protocol (router.py docstring)
\* One cycle of the documented usage.  curFp, hit and args are locals of the
\* cycle: they are dead once the cycle's router call has returned, and are
\* cleared there.
\* fp = router.fingerprint(shot); hit = router.try_cache(fp, step)
RouterTryCache ==
    /\ rpc = "idle"
    /\ rstep < MaxStep
    /\ \E fp \in Fingerprints \cup {NoFp} :
        LET h == try_cache(entries, hash_threshold, fp)
        IN  /\ curFp' = fp
            /\ hit' = h
            /\ rpc' = IF h = 0 THEN "miss" ELSE "hit"
            /\ lastCall' = [op |-> "try_cache", ret |-> (h # 0)]
    /\ rstep' = rstep + 1
    /\ UNCHANGED <<entries, hash_threshold, args>>

\* "execute hit.actions": the replay succeeds or raises, and the screen is
\* fingerprinted again
RouterReplay ==
    /\ rpc = "hit"
    /\ \E post_fp \in Fingerprints \cup {NoFp}, success \in BOOLEAN :
        args' = [actions |-> entries[hit].actions, post_fp |-> post_fp,
                 success |-> success]
    /\ rpc' = "replayed"
    /\ UNCHANGED <<entries, hash_threshold, rstep, curFp, hit, lastCall>>

\* router.verify_and_commit(hit, post_fp, step, success)
RouterVerifyAndCommit ==
    /\ rpc = "replayed"
    /\ LET r == verify_and_commit(entries, hit, args.post_fp, rstep, args.success)
       IN  /\ entries' = r.cache
           /\ lastCall' = [op |-> "verify_and_commit", ret |-> r.ret]
    /\ rpc' = "idle"
    /\ args' = NoArgs /\ curFp' = NoFp /\ hit' = 0
    /\ UNCHANGED <<hash_threshold, rstep>>

\* "normal VLM path": the model chooses actions, they are executed and the
\* screen is fingerprinted again
RouterModelStep ==
    /\ rpc = "miss"
    /\ \E actions \in ActionLists, post_fp \in PostFingerprints :
        args' = [actions |-> actions, post_fp |-> post_fp, success |-> TRUE]
    /\ rpc' = "executed"
    /\ UNCHANGED <<entries, hash_threshold, rstep, curFp, hit, lastCall>>

\* "then on success": router.record(fp, actions, post_fp, step)
RouterRecord ==
    /\ rpc = "executed"
    /\ entries' = record(entries, curFp, args.actions, args.post_fp, rstep)
    /\ lastCall' = [op |-> "record", ret |-> TRUE]
    /\ rpc' = "idle"
    /\ args' = NoArgs /\ curFp' = NoFp /\ hit' = 0
    /\ UNCHANGED <<hash_threshold, rstep>>

\* the VLM path failed: nothing is recorded
RouterNoRecord ==
    /\ rpc = "miss"
    /\ rpc' = "idle"
    /\ lastCall' = [op |-> "none", ret |-> FALSE]
    /\ curFp' = NoFp /\ hit' = 0
    /\ UNCHANGED <<entries, hash_threshold, rstep, args>>

InitCacheVars ==
    /\ entries = <<>>
    /\ rpc = "idle"
    /\ rstep = 0
    /\ curFp = NoFp
    /\ hit = 0
    /\ args = NoArgs
    /\ lastCall = [op |-> "none", ret |-> FALSE]

\* ------------------------------------------------------ hub.py, events
NoStep == 0 - 1

\* SupervisorEvent(type, data): data flattened to the keys the loop uses.
Event(type, st, error, reason, stp, text) ==
    [type |-> type, status |-> st, error |-> error, reason |-> reason,
     step |-> stp, text |-> text]

NoEvent == Event("", "", "", "", NoStep, "")

\* hub.set_status(status, **extra): the snapshot it records
StatusData(st, error, reason, stp) ==
    [status |-> st, error |-> error, reason |-> reason, step |-> stp]

\* hub.set_status(status, **extra) called by the loop thread: records
\* _last_status and publishes a status event.
hub_set_status(st, error, reason, stp) ==
    /\ hub_last_status' = StatusData(st, error, reason, stp)
    /\ lastPub' = Event("status", st, error, reason, stp, "")

\* hub.set_status followed by hub.publish(type, data) in the same stretch of
\* the loop thread: the last event published is the second one.
hub_set_status_then_publish(st, error, reason, stp, evt) ==
    /\ hub_last_status' = StatusData(st, error, reason, stp)
    /\ lastPub' = evt

\* ------------------------------------------------- conversation.py
ConversationItem(role, text, inj) == [role |-> role, text |-> text, injected |-> inj]

\* add() putting the item in front
add_Front(items, role, text, inj) == <<ConversationItem(role, text, inj)>> \o items

\* ConversationStore.add(role, text, **meta)
add(items, role, text, inj) == Append(items, ConversationItem(role, text, inj))

\* The scan of _tail_items_by_rounds from 0-based index i down, with the
\* assistant turns seen so far: the value start_idx is left with.
RECURSIVE tail_start(_, _, _, _)
tail_start(items, tail_rounds, i, assistant_seen) ==
    IF i < 0 THEN 0
    ELSE IF items[i + 1].role = "assistant"
         THEN IF assistant_seen + 1 >= tail_rounds THEN i
              ELSE tail_start(items, tail_rounds, i - 1, assistant_seen + 1)
    ELSE tail_start(items, tail_rounds, i - 1, assistant_seen)

\* _tail_items_by_rounds without the step back to the user prompt
tail_items_by_rounds_NoPrompt(items, tail_rounds) ==
    IF items = <<>> THEN <<>>
    ELSE SubSeq(items, tail_start(items, tail_rounds, Len(items) - 1, 0) + 1, Len(items))

\* ConversationStore._tail_items_by_rounds(tail_rounds); indices are 0-based
\* as in the source, items[k] of the source is items[k + 1] here
tail_items_by_rounds(items, tail_rounds) ==
    LET found == tail_start(items, tail_rounds, Len(items) - 1, 0)
        start_idx == IF found > 0 /\ items[found + 1].role = "assistant"
                        /\ items[found].role = "user"
                     THEN found - 1
                     ELSE found
    IN  IF items = <<>> THEN <<>> ELSE SubSeq(items, start_idx + 1, Len(items))

\* ConversationStore.to_openai_messages(include_system=..., tail_rounds=...)
to_openai_messages(items, include_system, tail_rounds) ==
    LET kept == SelectSeq(tail_items_by_rounds(items, tail_rounds),
                          LAMBDA it : include_system \/ it.role # "system")
    IN  [k \in 1 .. Len(kept) |-> [role |-> kept[k].role, content |-> kept[k].text]]

\* "Build messages": the system prompt, the conversation tail without system
\* items, the current screen                                        (153-157)
BuildMessages(items) ==
    <<[role |-> "system", content |-> "system_prompt"]>>
        \o to_openai_messages(items, FALSE, LoopTailRounds)
        \o <<[role |-> "user", content |-> "Current screen. Decide next action."]>>

\* --------------------------------------------- collaborators (loop.py)
\* invoke_model(...): InvokeResult.prediction (the raw reply, which the loop
\* only passes on) and the action types of InvokeResult.parsed_predictions
InvokeResults ==
    {[prediction |-> "reply", parsed |-> <<"click">>],
     [prediction |-> "reply", parsed |-> <<"finished">>],
     [prediction |-> "reply", parsed |-> <<"call_user">>],
     [prediction |-> "reply", parsed |-> <<"error_env">>],
     [prediction |-> "reply", parsed |-> <<>>]}

\* ------------------------------------------------- Worker.run (loop.py)
\* Each step of the loop thread runs up to its next call into the shared
\* WorkerControl (one lock acquisition per step).

\* The last three items of a sequence.
LastThree(q) == IF Len(q) <= 3 THEN q ELSE SubSeq(q, Len(q) - 2, Len(q))

\* self._monitor.stop()
monitor_stop == monStopping' = TRUE

\* self.control.set_status(StatusEnum.RUNNING)                       (line 70)
RunStart ==
    /\ pc = "start"
    /\ set_status("RUNNING")
    /\ pc' = "start_snap"
    /\ UNCHANGED <<step, parse_err_streak, snap, pred, err>>
    /\ UNCHANGED <<hubVars, conv, cfgVars, monVars, callCounts, exit, pauseHist,
                   routerCalls, parseLog, guidHist>>

\* self.control.snapshot()["status"], the argument of hub.set_status
\* (lines 71, 95, 114, 124, 139, 200, 211, 215, 224, 228, 240, 245)
Snapshot(at, next) ==
    /\ pc = at
    /\ snap' = status
    /\ pc' = next
    /\ UNCHANGED <<step, parse_err_streak, pred, err>>
    /\ UNCHANGED <<controlVars, hubVars, conv, cfgVars, monVars, callCounts, exit,
                   pauseHist, routerCalls, parseLog, guidHist>>

RunSnapshot ==
    \/ Snapshot("start_snap", "start_hub")
    \/ Snapshot("launch_snap", "launch_hub")
    \/ Snapshot("stop_snap", "stop_hub")
    \/ Snapshot("max_snap", "max_hub")
    \/ Snapshot("hang_snap", "hang_hub")
    \/ Snapshot("end_snap", "end_hub")
    \/ Snapshot("run_snap", "run_hub")
    \/ Snapshot("exc_snap", "exc_hub")

\* self.hub.set_status(status); the monitor is created and started (71-88)
RunStartHub ==
    /\ pc = "start_hub"
    /\ hub_set_status(snap, "", "", NoStep)
    /\ mpc' = "idle"
    /\ pc' = "launch"
    /\ UNCHANGED <<step, parse_err_streak, snap, pred, err>>
    /\ UNCHANGED <<controlVars, conv, cfgVars, msnap, monStopping, callCounts, exit,
                   pauseHist, routerCalls, parseLog, guidHist>>

\* self.wf.launch_app() returns: the system prompt and the instruction are
\* appended and the instruction is published                        (91-109)
RunLaunch ==
    /\ pc = "launch"
    /\ conv' = add(add(conv, "system", "system_prompt", FALSE),
                   "user", "instruction", FALSE)
    /\ lastPub' = Event("conversation", "", "", "user", NoStep, "instruction")
    /\ step' = 0
    /\ parse_err_streak' = 0
    /\ pc' = "top"
    /\ UNCHANGED <<snap, pred, err>>
    /\ UNCHANGED <<controlVars, hub_last_status, cfgVars, monVars, callCounts,
                   exit, pauseHist, routerCalls, parseLog, guidHist>>

\* self.wf.launch_app() raises: set_status(ERROR)                    (93-94)
RunLaunchRaises ==
    /\ pc = "launch"
    /\ err' = "launch_app"
    /\ set_status("ERROR")
    /\ pc' = "launch_snap"
    /\ UNCHANGED <<step, parse_err_streak, snap, pred>>
    /\ UNCHANGED <<hubVars, conv, cfgVars, monVars, callCounts, exit, pauseHist,
                   routerCalls, parseLog, guidHist>>

\* hub.set_status(status, error=str(e)); publish("error", where=launch_app);
\* monitor stop; return                                              (95-99)
RunLaunchHub ==
    /\ pc = "launch_hub"
    /\ hub_set_status_then_publish(snap, err, "", NoStep,
           Event("error", "", err, "launch_app", NoStep, ""))
    /\ monitor_stop
    /\ exit' = "launch_app"
    /\ pc' = "done"
    /\ UNCHANGED <<step, parse_err_streak, snap, pred, err>>
    /\ UNCHANGED <<controlVars, conv, cfgVars, mpc, msnap, callCounts, pauseHist,
                   routerCalls, parseLog, guidHist>>

\* The top of the loop without its stop check.
RunTop_IgnoreStop ==
    /\ pc = "top"
    /\ pc' = "gate"
    /\ UNCHANGED <<step, parse_err_streak, snap, pred, err>>
    /\ UNCHANGED <<controlVars, hubVars, conv, cfgVars, monVars, callCounts, exit,
                   pauseHist, routerCalls, parseLog, guidHist>>

\* if self.control.snapshot()["stopped"]                                (112)
RunTop ==
    /\ pc = "top"
    /\ pc' = IF stopped THEN "stop_set" ELSE "gate"
    /\ UNCHANGED <<step, parse_err_streak, snap, pred, err>>
    /\ UNCHANGED <<controlVars, hubVars, conv, cfgVars, monVars, callCounts, exit,
                   pauseHist, routerCalls, parseLog, guidHist>>

\* self.control.set_status(StatusEnum.USER_STOPPED)               (113, 123)
RunStopSet ==
    /\ pc = "stop_set"
    /\ set_status("USER_STOPPED")
    /\ pc' = "stop_snap"
    /\ UNCHANGED <<step, parse_err_streak, snap, pred, err>>
    /\ UNCHANGED <<hubVars, conv, cfgVars, monVars, callCounts, exit, pauseHist,
                   routerCalls, parseLog, guidHist>>

\* self.hub.set_status(status); monitor stop; return     (114-117, 124-127)
RunStopHub ==
    /\ pc = "stop_hub"
    /\ hub_set_status(snap, "", "", NoStep)
    /\ monitor_stop
    /\ exit' = "stopped"
    /\ pc' = "done"
    /\ UNCHANGED <<step, parse_err_streak, snap, pred, err>>
    /\ UNCHANGED <<controlVars, conv, cfgVars, mpc, msnap, callCounts, pauseHist,
                   routerCalls, parseLog, guidHist>>

\* the pause gate without its test of paused
RunGate_IgnorePaused ==
    /\ pc = "gate"
    /\ pc' = "pop"
    /\ startedSincePause' = TRUE
    /\ UNCHANGED <<step, parse_err_streak, snap, pred, err>>
    /\ UNCHANGED <<controlVars, hubVars, conv, cfgVars, monVars, callCounts, exit,
                   pauseCalled, routerCalls, parseLog, guidHist>>

\* while self.control.snapshot()["paused"]                              (120)
RunGate ==
    /\ pc = "gate"
    /\ pc' = IF paused THEN "sleep" ELSE "pop"
    /\ startedSincePause' = IF paused THEN startedSincePause ELSE TRUE
    /\ UNCHANGED <<step, parse_err_streak, snap, pred, err>>
    /\ UNCHANGED <<controlVars, hubVars, conv, cfgVars, monVars, callCounts, exit,
                   pauseCalled, routerCalls, parseLog, guidHist>>

\* the pause poll without its test of stopped
RunSleep_NoStopCheck ==
    /\ pc = "sleep"
    /\ pc' = "gate"
    /\ UNCHANGED <<step, parse_err_streak, snap, pred, err>>
    /\ UNCHANGED <<controlVars, hubVars, conv, cfgVars, monVars, callCounts, exit,
                   pauseHist, routerCalls, parseLog, guidHist>>

\* time.sleep(0.2); if self.control.snapshot()["stopped"]           (121-122)
RunSleep ==
    /\ pc = "sleep"
    /\ pc' = IF stopped THEN "stop_set" ELSE "gate"
    /\ UNCHANGED <<step, parse_err_streak, snap, pred, err>>
    /\ UNCHANGED <<controlVars, hubVars, conv, cfgVars, monVars, callCounts, exit,
                   pauseHist, routerCalls, parseLog, guidHist>>

\* the max_loop_count test off by one
RunPop_OffByOne ==
    /\ pc = "pop"
    /\ LET injectedText == pop_injected_value
           txt == IF injectedText = None THEN ""
                  ELSE "[Supervisor Guidance]\n" \o injectedText
       IN  /\ pop_injected
           /\ popLog' = IF injectedText = None THEN popLog
                         ELSE Append(popLog, injectedText)
           /\ IF injectedText # None /\ injectedText # ""
              THEN /\ conv' = add(conv, "user", txt, TRUE)
                   /\ lastPub' = Event("conversation", "", "", "user", NoStep, txt)
              ELSE UNCHANGED <<conv, lastPub>>
    /\ step' = step + 1
    /\ pc' = IF step' > max_loop_count + 1 THEN "max_set" ELSE "capture"
    /\ routerCalls' = 0
    /\ UNCHANGED <<parseLog, injLog>>
    /\ UNCHANGED <<parse_err_streak, snap, pred, err>>
    /\ UNCHANGED <<hub_last_status, cfgVars, monVars, callCounts, exit, pauseHist>>

\* injected = self.control.pop_injected(); if injected: add it to the
\* conversation as a user turn and publish it; step += 1;
\* if step > max_loop_count                                         (129-137)
RunPop ==
    /\ pc = "pop"
    /\ LET injectedText == pop_injected_value
           txt == IF injectedText = None THEN ""
                  ELSE "[Supervisor Guidance]\n" \o injectedText
       IN  /\ pop_injected
           /\ popLog' = IF injectedText = None THEN popLog
                         ELSE Append(popLog, injectedText)
           /\ IF injectedText # None /\ injectedText # ""
              THEN /\ conv' = add(conv, "user", txt, TRUE)
                   /\ lastPub' = Event("conversation", "", "", "user", NoStep, txt)
              ELSE UNCHANGED <<conv, lastPub>>
    /\ step' = step + 1
    /\ pc' = IF step' > max_loop_count THEN "max_set" ELSE "capture"
    /\ routerCalls' = 0
    /\ UNCHANGED <<parseLog, injLog>>
    /\ UNCHANGED <<parse_err_streak, snap, pred, err>>
    /\ UNCHANGED <<hub_last_status, cfgVars, monVars, callCounts, exit, pauseHist>>

\* self.control.set_status(StatusEnum.ERROR)                            (138)
RunMaxSet ==
    /\ pc = "max_set"
    /\ set_status("ERROR")
    /\ pc' = "max_snap"
    /\ UNCHANGED <<step, parse_err_streak, snap, pred, err>>
    /\ UNCHANGED <<hubVars, conv, cfgVars, monVars, callCounts, exit, pauseHist,
                   routerCalls, parseLog, guidHist>>

\* hub.set_status(status, error="max_loop_count"); monitor stop; return
\*                                                                  (139-142)
RunMaxHub ==
    /\ pc = "max_hub"
    /\ hub_set_status(snap, "max_loop_count", "", NoStep)
    /\ monitor_stop
    /\ exit' = "max_loop_count"
    /\ pc' = "done"
    /\ UNCHANGED <<step, parse_err_streak, snap, pred, err>>
    /\ UNCHANGED <<controlVars, conv, cfgVars, mpc, msnap, callCounts, pauseHist,
                   routerCalls, parseLog, guidHist>>

\* An exception is raised in the try block: control passes to the handler.
Raise(what) ==
    /\ err' = what
    /\ pc' = "exc_set"

\* shot = self.cap.capture(); recorder.write_step; resize          (144-151)
RunCapture ==
    /\ pc = "capture"
    /\ nCapture' = nCapture + 1
    /\ \/ pc' = "invoke" /\ UNCHANGED err
       \/ \E what \in {"capture", "resize"} : Raise(what)
    /\ UNCHANGED <<step, parse_err_streak, snap, pred>>
    /\ UNCHANGED <<controlVars, hubVars, conv, cfgVars, monVars, nInvoke, nExecute,
                   exit, pauseHist, routerCalls, parseLog, guidHist>>

\* messages built from the conversation tail; inv = invoke_model(...);
\* the reply is appended to the conversation and published;
\* pred = inv.parsed_predictions[0]; recorder.write_step           (153-191)
RunInvoke ==
    /\ pc = "invoke"
    /\ nInvoke' = nInvoke + 1
    /\ \/ /\ Raise("invoke_model")
          /\ UNCHANGED <<conv, lastPub, pred, parseLog>>
       \/ \E inv \in InvokeResults :
             /\ conv' = add(conv, "assistant", inv.prediction, FALSE)
             /\ lastPub' = Event("conversation", "", "", "assistant", NoStep,
                                 inv.prediction)
             /\ IF inv.parsed = <<>>
                THEN Raise("IndexError") /\ UNCHANGED <<pred, parseLog>>
                ELSE /\ pred' = inv.parsed[1]
                     /\ parseLog' = LastThree(Append(parseLog, pred' = "error_env"))
                     /\ \/ pc' = "dispatch" /\ UNCHANGED err
                        \/ Raise("write_step")
    /\ UNCHANGED <<step, parse_err_streak, snap>>
    /\ UNCHANGED <<controlVars, hub_last_status, cfgVars, monVars, nCapture,
                   nExecute, exit, pauseHist, routerCalls, guidHist>>

\* the parse-error hang taken one error early
RunDispatch_HangEarly ==
    /\ pc = "dispatch"
    /\ IF pred = "error_env"
       THEN /\ parse_err_streak' = parse_err_streak + 1
            /\ lastPub' = Event("error", "", "", "parse", parse_err_streak', "")
            /\ pc' = IF parse_err_streak' >= 2 THEN "hang_set" ELSE "execute"
       ELSE /\ parse_err_streak' = 0
            /\ UNCHANGED lastPub
            /\ pc' = CASE pred = "finished" ->
                            IF hang_on_finished THEN "hang_set" ELSE "end_set"
                       [] pred = "call_user" ->
                            IF hang_on_call_user THEN "hang_set" ELSE "end_set"
                       [] OTHER -> "execute"
    /\ UNCHANGED <<step, snap, pred, err>>
    /\ UNCHANGED <<controlVars, hub_last_status, conv, cfgVars, monVars, callCounts,
                   exit, pauseHist, routerCalls, parseLog, guidHist>>

\* the dispatch with hang_on_finished / hang_on_call_user ignored
RunDispatch_IgnoreHang ==
    /\ pc = "dispatch"
    /\ IF pred = "error_env"
       THEN /\ parse_err_streak' = parse_err_streak + 1
            /\ lastPub' = Event("error", "", "", "parse", parse_err_streak', "")
            /\ pc' = IF parse_err_streak' >= 3 THEN "hang_set" ELSE "execute"
       ELSE /\ parse_err_streak' = 0
            /\ UNCHANGED lastPub
            /\ pc' = IF pred \in {"finished", "call_user"} THEN "end_set" ELSE "execute"
    /\ UNCHANGED <<step, snap, pred, err>>
    /\ UNCHANGED <<controlVars, hub_last_status, conv, cfgVars, monVars, callCounts,
                   exit, pauseHist, routerCalls, parseLog, guidHist>>

\* if pred.action_type == "error_env": streak, publish error, hang at 3;
\* else streak = 0; finished / call_user: hang or end; otherwise execute
\* (a parse error below the hang threshold falls through to the execute
\* path: it is neither finished nor call_user)                     (193-231)
RunDispatch ==
    /\ pc = "dispatch"
    /\ IF pred = "error_env"
       THEN /\ parse_err_streak' = parse_err_streak + 1
            /\ lastPub' = Event("error", "", "", "parse", parse_err_streak', "")
            /\ pc' = IF parse_err_streak' >= 3 THEN "hang_set" ELSE "execute"
       ELSE /\ parse_err_streak' = 0
            /\ UNCHANGED lastPub
            /\ pc' = CASE pred = "finished" ->
                            IF hang_on_finished THEN "hang_set" ELSE "end_set"
                       [] pred = "call_user" ->
                            IF hang_on_call_user THEN "hang_set" ELSE "end_set"
                       [] OTHER -> "execute"
    /\ UNCHANGED <<step, snap, pred, err>>
    /\ UNCHANGED <<controlVars, hub_last_status, conv, cfgVars, monVars, callCounts,
                   exit, pauseHist, routerCalls, parseLog, guidHist>>

\* self.control.set_status(StatusEnum.HANG)                  (198, 209, 222)
RunHangSet ==
    /\ pc = "hang_set"
    /\ set_status("HANG")
    /\ pc' = "hang_pause"
    /\ UNCHANGED <<step, parse_err_streak, snap, pred, err>>
    /\ UNCHANGED <<hubVars, conv, cfgVars, monVars, callCounts, exit, pauseHist,
                   routerCalls, parseLog, guidHist>>

\* self.control.pause()                                      (199, 210, 223)
RunHangPause ==
    /\ pc = "hang_pause"
    /\ pause
    /\ pauseCalled' = TRUE
    /\ startedSincePause' = FALSE
    /\ pc' = "hang_snap"
    /\ UNCHANGED <<step, parse_err_streak, snap, pred, err>>
    /\ UNCHANGED <<hubVars, conv, cfgVars, monVars, callCounts, exit, routerCalls, parseLog, guidHist>>

\* The reason the hang is published with.
HangReason == IF pred = "error_env" THEN "parse_error_streak" ELSE pred

\* hub.set_status(status[, reason="parse_error_streak"]);
\* hub.publish("hang", reason); continue          (200-202, 211-213, 224-226)
RunHangHub ==
    /\ pc = "hang_hub"
    /\ hub_set_status_then_publish(
           snap, "", IF pred = "error_env" THEN "parse_error_streak" ELSE "", NoStep,
           Event("hang", "", "", HangReason, NoStep, ""))
    /\ pc' = "top"
    /\ UNCHANGED <<step, parse_err_streak, snap, pred, err>>
    /\ UNCHANGED <<controlVars, conv, cfgVars, monVars, callCounts, exit, pauseHist,
                   routerCalls, parseLog, guidHist>>

\* self.control.set_status(StatusEnum.END / CALL_USER)            (214, 227)
RunEndSet ==
    /\ pc = "end_set"
    /\ set_status(IF pred = "finished" THEN "END" ELSE "CALL_USER")
    /\ pc' = "end_snap"
    /\ UNCHANGED <<step, parse_err_streak, snap, pred, err>>
    /\ UNCHANGED <<hubVars, conv, cfgVars, monVars, callCounts, exit, pauseHist,
                   routerCalls, parseLog, guidHist>>

\* hub.set_status(status); monitor stop; return          (215-218, 228-231)
RunEndHub ==
    /\ pc = "end_hub"
    /\ hub_set_status(snap, "", "", NoStep)
    /\ monitor_stop
    /\ exit' = pred
    /\ pc' = "done"
    /\ UNCHANGED <<step, parse_err_streak, snap, pred, err>>
    /\ UNCHANGED <<controlVars, conv, cfgVars, mpc, msnap, callCounts, pauseHist,
                   routerCalls, parseLog, guidHist>>

\* self.wf.activate_app(); execute_action(cfg, pred, shot); recorder (233-236)
RunExecute ==
    /\ pc = "execute"
    /\ \/ /\ nExecute' = nExecute + 1
          /\ \/ pc' = "run_set" /\ UNCHANGED err
             \/ Raise("execute_action")
       \/ /\ Raise("activate_app")
          /\ UNCHANGED nExecute
    /\ UNCHANGED <<step, parse_err_streak, snap, pred>>
    /\ UNCHANGED <<controlVars, hubVars, conv, cfgVars, monVars, nCapture, nInvoke,
                   exit, pauseHist, routerCalls, parseLog, guidHist>>

\* self.control.set_status(StatusEnum.RUNNING)                          (239)
RunRunningSet ==
    /\ pc = "run_set"
    /\ set_status("RUNNING")
    /\ pc' = "run_snap"
    /\ UNCHANGED <<step, parse_err_streak, snap, pred, err>>
    /\ UNCHANGED <<hubVars, conv, cfgVars, monVars, callCounts, exit, pauseHist,
                   routerCalls, parseLog, guidHist>>

\* hub.set_status(status, step=step); time.sleep(loop_interval)    (240-242)
RunRunningHub ==
    /\ pc = "run_hub"
    /\ hub_set_status(snap, "", "", step)
    /\ pc' = "top"
    /\ UNCHANGED <<step, parse_err_streak, snap, pred, err>>
    /\ UNCHANGED <<controlVars, conv, cfgVars, monVars, callCounts, exit, pauseHist,
                   routerCalls, parseLog, guidHist>>

\* except Exception as e: self.control.set_status(StatusEnum.ERROR) (243-244)
RunExceptSet ==
    /\ pc = "exc_set"
    /\ set_status("ERROR")
    /\ pc' = "exc_snap"
    /\ UNCHANGED <<step, parse_err_streak, snap, pred, err>>
    /\ UNCHANGED <<hubVars, conv, cfgVars, monVars, callCounts, exit, pauseHist,
                   routerCalls, parseLog, guidHist>>

\* the handler publishing its error event without the step
RunExceptHub_NoStep ==
    /\ pc = "exc_hub"
    /\ hub_set_status_then_publish(snap, err, "", step,
           Event("error", "", err, "loop", NoStep, ""))
    /\ monitor_stop
    /\ exit' = "error"
    /\ pc' = "done"
    /\ UNCHANGED <<step, parse_err_streak, snap, pred, err>>
    /\ UNCHANGED <<controlVars, conv, cfgVars, mpc, msnap, callCounts, pauseHist,
                   routerCalls, parseLog, guidHist>>

\* hub.set_status(status, error=str(e), step=step);
\* hub.publish("error", {where: loop, error, step}); recorder.log_event;
\* monitor stop; return                                            (245-250)
RunExceptHub ==
    /\ pc = "exc_hub"
    /\ hub_set_status_then_publish(snap, err, "", step,
           Event("error", "", err, "loop", step, ""))
    /\ monitor_stop
    /\ exit' = "error"
    /\ pc' = "done"
    /\ UNCHANGED <<step, parse_err_streak, snap, pred, err>>
    /\ UNCHANGED <<controlVars, conv, cfgVars, mpc, msnap, callCounts, pauseHist,
                   routerCalls, parseLog, guidHist>>

\* The loop thread.
LoopStep ==
    \/ RunStart
    \/ RunSnapshot
    \/ RunStartHub
    \/ RunLaunch
    \/ RunLaunchRaises
    \/ RunLaunchHub
    \/ RunTop
    \/ RunStopSet
    \/ RunStopHub
    \/ RunGate
    \/ RunSleep
    \/ RunPop
    \/ RunMaxSet
    \/ RunMaxHub
    \/ RunCapture
    \/ RunInvoke
    \/ RunDispatch
    \/ RunHangSet
    \/ RunHangPause
    \/ RunHangHub
    \/ RunEndSet
    \/ RunEndHub
    \/ RunExecute
    \/ RunRunningSet
    \/ RunRunningHub
    \/ RunExceptSet
    \/ RunExceptHub

\* ------------------------------------ the monitor thread: _on_act (74-85)
\* snap = self.control.snapshot(); return unless running and not paused
MonitorActivity ==
    /\ mpc = "idle"
    /\ ~monStopping
    /\ ~paused /\ ~stopped /\ status = "RUNNING"
    /\ mpc' = "pause"
    /\ UNCHANGED <<msnap, monStopping>>
    /\ UNCHANGED <<controlVars, hubVars, conv, cfgVars, localVars, callCounts, exit,
                   pauseHist, routerCalls, parseLog, guidHist>>

\* self.control.pause()
MonitorPause ==
    /\ mpc = "pause"
    /\ pause
    /\ pauseCalled' = TRUE
    /\ startedSincePause' = FALSE
    /\ mpc' = "snap"
    /\ UNCHANGED <<msnap, monStopping>>
    /\ UNCHANGED <<hubVars, conv, cfgVars, localVars, callCounts, exit, routerCalls, parseLog, guidHist>>

\* self.control.snapshot()["status"]
MonitorSnapshot ==
    /\ mpc = "snap"
    /\ msnap' = status
    /\ mpc' = "hub"
    /\ UNCHANGED monStopping
    /\ UNCHANGED <<controlVars, hubVars, conv, cfgVars, localVars, callCounts, exit,
                   pauseHist, routerCalls, parseLog, guidHist>>

\* self.hub.set_status(status); self.hub.publish("auto_pause", ...)
MonitorHub ==
    /\ mpc = "hub"
    /\ hub_set_status_then_publish(msnap, "", "", NoStep,
           Event("auto_pause", "", "", "user_input", NoStep, ""))
    /\ mpc' = "idle"
    /\ UNCHANGED <<msnap, monStopping>>
    /\ UNCHANGED <<controlVars, conv, cfgVars, localVars, callCounts, exit,
                   pauseHist, routerCalls, parseLog, guidHist>>

MonitorStep ==
    \/ MonitorActivity
    \/ MonitorPause
    \/ MonitorSnapshot
    \/ MonitorHub

\* ------------------------- the supervision surface: any external thread
EnvPause ==
    /\ pause
    /\ pauseCalled' = TRUE
    /\ startedSincePause' = FALSE
    /\ UNCHANGED <<controlHist, hubVars, conv, cfgVars, localVars, monVars,
                   callCounts, exit, routerCalls, parseLog, guidHist>>

EnvResume ==
    /\ resume
    /\ pauseCalled' = FALSE
    /\ UNCHANGED <<controlHist, hubVars, conv, cfgVars, localVars, monVars,
                   callCounts, exit, startedSincePause, routerCalls, parseLog, guidHist>>

EnvStop ==
    /\ stop
    /\ stopCalled' = TRUE
    /\ UNCHANGED <<popRet, injectCount, ctlCall, guidHist>>
    /\ UNCHANGED <<hubVars, loopVars>>

\* the supervisor's k-th guidance message is GuidanceSeq[k]
EnvInject ==
    /\ injectCount < MaxGuidance
    /\ LET t == GuidanceSeq[(injectCount % Len(GuidanceSeq)) + 1]
       IN  inject(t) /\ injLog' = Append(injLog, t)
    /\ injectCount' = injectCount + 1
    /\ UNCHANGED <<popRet, stopCalled, popLog, ctlCall>>
    /\ UNCHANGED <<hubVars, loopVars>>

EnvStep ==
    \/ EnvPause
    \/ EnvResume
    \/ EnvStop
    \/ EnvInject

InitLoopVars ==
    /\ hub_last_status = StatusData("init", "", "", NoStep)
    /\ lastPub = NoEvent
    /\ conv = <<>>
    /\ pc = "start"
    /\ step = 0
    /\ parse_err_streak = 0
    /\ snap = ""
    /\ pred = ""
    /\ err = ""
    /\ mpc = "off"
    /\ msnap = ""
    /\ monStopping = FALSE
    /\ nCapture = 0
    /\ nInvoke = 0
    /\ nExecute = 0
    /\ exit = ""
    /\ pauseCalled = FALSE
    /\ startedSincePause = FALSE
    /\ routerCalls = 0
    /\ parseLog = <<>>
    /\ injLog = <<>>
    /\ popLog = <<>>

InitExtraVars ==
    /\ statsRet = [total |-> 0, failed |-> 0, exhausted |-> 0]
    /\ entriesBefore = <<>>
    /\ subs = <<>>
    /\ queues = <<>>
    /\ pubLeft = [p \in {"loop", "monitor"} |-> <<>>]
    /\ pubEvt = [p \in {"loop", "monitor"} |-> 0]
    /\ nPub = 0
    /\ taken = <<>>
    /\ tailN = 0
    /\ tailRet = <<>>
    /\ reader = [pc |-> "idle", n |-> 0, items |-> <<>>, ret |-> <<>>]
    /\ hubCall = [p \in {"loop", "monitor"} |-> ""]

InitControlVars ==
    /\ status = "INIT"
    /\ paused = FALSE
    /\ stopped = FALSE
    /\ injected = <<>>
    /\ popRet = None
    /\ stopCalled = FALSE
    /\ injectCount = 0
    /\ ctlCall = Call("", "")

\* ----------------------------------------------------------- SpecControl
InitControl ==
    /\ InitControlVars
    /\ InitCacheVars
    /\ hash_threshold = 0
    /\ InitLoopVars
    /\ InitExtraVars
    /\ hang_on_finished = FALSE
    /\ hang_on_call_user = FALSE

NextControl ==
    \/ CallPause /\ UNCHANGED <<cacheVars, hubVars, loopVars, extraVars>>
    \/ CallResume /\ UNCHANGED <<cacheVars, hubVars, loopVars, extraVars>>
    \/ CallStop /\ UNCHANGED <<cacheVars, hubVars, loopVars, extraVars>>
    \/ CallSetStatus /\ UNCHANGED <<cacheVars, hubVars, loopVars, extraVars>>
    \/ CallInject /\ UNCHANGED <<cacheVars, hubVars, loopVars, extraVars>>
    \/ CallPopInjected /\ UNCHANGED <<cacheVars, hubVars, loopVars, extraVars>>

SpecControl == InitControl /\ [][NextControl]_vars

\* ------------------------------------------------------------- SpecCache
InitCache ==
    /\ InitControlVars
    /\ InitCacheVars
    /\ hash_threshold \in 0 .. MaxThreshold
    /\ InitLoopVars
    /\ InitExtraVars
    /\ hang_on_finished = FALSE
    /\ hang_on_call_user = FALSE

NextCache ==
    \/ RouterTryCache /\ UNCHANGED <<controlVars, controlHist, hubVars, loopVars, guidHist, extraVars>>
    \/ RouterReplay /\ UNCHANGED <<controlVars, controlHist, hubVars, loopVars, guidHist, extraVars>>
    \/ RouterVerifyAndCommit /\ UNCHANGED <<controlVars, controlHist, hubVars, loopVars, guidHist, extraVars>>
    \/ RouterModelStep /\ UNCHANGED <<controlVars, controlHist, hubVars, loopVars, guidHist, extraVars>>
    \/ RouterRecord /\ UNCHANGED <<controlVars, controlHist, hubVars, loopVars, guidHist, extraVars>>
    \/ RouterNoRecord /\ UNCHANGED <<controlVars, controlHist, hubVars, loopVars, guidHist, extraVars>>

SpecCache == InitCache /\ [][NextCache]_vars

\* ----------------------------------------------------------- SpecL0Cache
\* L0Cache driven directly through its methods, as test_l0_cache.py does.
\* rstep counts the calls and is the step number handed to store and
\* record_hit; curFp is the fingerprint the call was about; an entry argument
\* is one of the entries the cache holds.
CacheKeys == 0 .. max_entries

CacheCall(op, fp, es, h) ==
    /\ rstep < MaxCalls
    /\ rstep' = rstep + 1
    /\ entriesBefore' = entries
    /\ entries' = es
    /\ curFp' = fp
    /\ hit' = h
    /\ lastCall' = [op |-> op, ret |-> (h # 0)]
    /\ UNCHANGED <<hash_threshold, args, rpc>>

\* cache.store(fp, actions, None, step)
CacheStore ==
    \E fp \in CacheKeys :
        CacheCall("store", fp, store(entries, fp, <<"click">>, NoFp, rstep + 1), 0)

\* cache.lookup(fp)
CacheLookup ==
    \E fp \in CacheKeys :
        CacheCall("lookup", fp, entries, lookup(entries, hash_threshold, fp))

\* cache.record_hit(entry, step)
CacheRecordHit ==
    \E i \in 1 .. Len(entries) :
        CacheCall("record_hit", entries[i].fingerprint,
                  record_hit(entries, i, rstep + 1), 0)

\* cache.mark_failed(entry)
CacheMarkFailed ==
    \E i \in 1 .. Len(entries) :
        CacheCall("mark_failed", entries[i].fingerprint, mark_failed(entries, i), 0)

\* cache.evict(entry)
CacheEvict ==
    \E i \in 1 .. Len(entries) :
        CacheCall("evict", entries[i].fingerprint, evict(entries, i), 0)

\* cache.stats()
CacheStats ==
    /\ CacheCall("stats", NoFp, entries, 0)
    /\ statsRet' = stats(entries)

InitL0Cache ==
    /\ InitControlVars
    /\ InitCacheVars
    /\ hash_threshold \in 0 .. MaxThreshold
    /\ InitLoopVars
    /\ InitExtraVars
    /\ hang_on_finished = FALSE
    /\ hang_on_call_user = FALSE

NextL0Cache ==
    \/ CacheStore /\ UNCHANGED <<controlVars, controlHist, hubVars, loopVars, guidHist, statsRet,
                                   hubQVars, tailVars, hubCall>>
    \/ CacheLookup /\ UNCHANGED <<controlVars, controlHist, hubVars, loopVars, guidHist, statsRet,
                                   hubQVars, tailVars, hubCall>>
    \/ CacheRecordHit /\ UNCHANGED <<controlVars, controlHist, hubVars, loopVars, guidHist, statsRet,
                                   hubQVars, tailVars, hubCall>>
    \/ CacheMarkFailed /\ UNCHANGED <<controlVars, controlHist, hubVars, loopVars, guidHist, statsRet,
                                   hubQVars, tailVars, hubCall>>
    \/ CacheEvict /\ UNCHANGED <<controlVars, controlHist, hubVars, loopVars, guidHist, statsRet,
                                   hubQVars, tailVars, hubCall>>
    \/ CacheStats /\ UNCHANGED <<controlVars, controlHist, hubVars, loopVars, guidHist,
                                  hubQVars, tailVars, hubCall>>

SpecL0Cache == InitL0Cache /\ [][NextL0Cache]_vars

\* ------------------------------------------------------------- SpecStore
\* store called with either of two action lists and post-fingerprints, on
\* keys that are new, present, failed or used up; args records the arguments
\* of the store.
StoreArgs ==
    {[actions |-> <<"click">>, post_fp |-> NoFp, success |-> TRUE],
     [actions |-> <<"drag">>, post_fp |-> 1, success |-> TRUE]}

StoreCall(op, fp, es, a) ==
    /\ rstep < MaxStoreCalls
    /\ rstep' = rstep + 1
    /\ entriesBefore' = entries
    /\ entries' = es
    /\ curFp' = fp
    /\ hit' = 0
    /\ lastCall' = [op |-> op, ret |-> FALSE]
    /\ args' = a
    /\ UNCHANGED <<hash_threshold, rpc>>

\* cache.store(fp, actions, post_fingerprint, step)
StoreAny ==
    \E fp \in CacheKeys, a \in StoreArgs :
        StoreCall("store", fp, store(entries, fp, a.actions, a.post_fp, rstep + 1), a)

\* cache.record_hit(entry, step)
StoreRecordHit ==
    \E i \in 1 .. Len(entries) :
        StoreCall("record_hit", entries[i].fingerprint,
                  record_hit(entries, i, rstep + 1), NoArgs)

\* cache.mark_failed(entry)
StoreMarkFailed ==
    \E i \in 1 .. Len(entries) :
        StoreCall("mark_failed", entries[i].fingerprint, mark_failed(entries, i), NoArgs)

NextStore ==
    \/ StoreAny /\ UNCHANGED <<controlVars, controlHist, hubVars, loopVars, guidHist, statsRet,
                                hubQVars, tailVars, hubCall>>
    \/ StoreRecordHit /\ UNCHANGED <<controlVars, controlHist, hubVars, loopVars, guidHist,
                                      statsRet, hubQVars, tailVars, hubCall>>
    \/ StoreMarkFailed /\ UNCHANGED <<controlVars, controlHist, hubVars, loopVars, guidHist,
                                       statsRet, hubQVars, tailVars, hubCall>>

SpecStore == InitL0Cache /\ [][NextStore]_vars

\* ------------------------------------------------------- SpecFingerprint
\* hamming_distance called on any two hashes of HashBits bits, as
\* test_fingerprint.py does; args records the two arguments and the result.
Hashes == 0 .. (2 ^ HashBits - 1)

HammingCall ==
    \E a \in Hashes, b \in Hashes :
        /\ rpc' = "hamming"
        /\ args' = [a |-> a, b |-> b, distance |-> hamming_distance(a, b)]
        /\ UNCHANGED <<entries, hash_threshold, rstep, curFp, hit, lastCall>>

NextFingerprint ==
    HammingCall /\ UNCHANGED <<controlVars, controlHist, hubVars, loopVars, guidHist, extraVars>>

SpecFingerprint == InitL0Cache /\ [][NextFingerprint]_vars

\* -------------------------------------------------------------- SpecConv
\* ConversationStore: items are added and the tail is taken.
Roles == {"system", "user", "assistant"}

\* the text of the k-th item added
ItemTexts == <<"t1", "t2", "t3", "t4", "t5", "t6", "t7">>

\* conversation.add(role, text)
ConvAdd ==
    /\ Len(conv) < MaxItems
    /\ \E role \in Roles : conv' = add(conv, role, ItemTexts[Len(conv) + 1], FALSE)
    /\ tailN' = 0
    /\ tailRet' = <<>>
    /\ UNCHANGED reader

\* conversation._tail_items_by_rounds(tail_rounds)
ConvTail ==
    /\ \E n \in 1 .. MaxRounds :
           /\ tailN' = n
           /\ tailRet' = tail_items_by_rounds(conv, n)
    /\ UNCHANGED <<conv, reader>>

\* a second thread in items() (n = 0) or _tail_items_by_rounds(n):
\* with self._lock: items = list(self._items)
ConvReadCopy ==
    /\ reader.pc # "copied"
    /\ \E n \in 0 .. MaxRounds :
           reader' = [pc |-> "copied", n |-> n, items |-> conv, ret |-> <<>>]
    /\ UNCHANGED <<conv, tailN, tailRet>>

\* the rest of the call, outside the lock, on the copy
ConvReadReturn ==
    /\ reader.pc = "copied"
    /\ reader' = [reader EXCEPT
                     !.pc = "returned",
                     !.ret = IF reader.n = 0 THEN reader.items
                             ELSE tail_items_by_rounds(reader.items, reader.n)]
    /\ UNCHANGED <<conv, tailN, tailRet>>

InitConv ==
    /\ InitControlVars
    /\ InitCacheVars
    /\ hash_threshold = 0
    /\ InitLoopVars
    /\ InitExtraVars
    /\ hang_on_finished = FALSE
    /\ hang_on_call_user = FALSE

\* everything but the conversation and the tail taken from it
convRest == <<controlVars, controlHist, cacheVars, hubVars, guidHist, l0Vars,
              hubQVars, hubCall, cfgVars, localVars, monVars, callCounts, exit, pauseHist,
              routerCalls, parseLog>>

NextConv ==
    \/ ConvAdd /\ UNCHANGED convRest
    \/ ConvTail /\ UNCHANGED convRest
    \/ ConvReadCopy /\ UNCHANGED convRest
    \/ ConvReadReturn /\ UNCHANGED convRest

SpecConv == InitConv /\ [][NextConv]_vars

\* --------------------------------------------------------------- SpecHub
\* SupervisorHub with its subscriber queues: threads subscribe, unsubscribe
\* and take events from their queue while a publish() is under way.  Events
\* are numbered in the order of the publish() calls.

\* q.put_nowait(evt) on a queue.Queue(maxsize): the contents it leaves and
\* whether queue.Full is raised
put_nowait(q, evt) ==
    IF Len(q) >= QueueMaxsize THEN [items |-> q, full |-> TRUE]
    ELSE [items |-> Append(q, evt), full |-> FALSE]

\* subscribe(): a new queue is created and appended to _subs under the lock
HubSubscribe ==
    /\ Len(queues) < MaxSubs
    /\ queues' = Append(queues, <<>>)
    /\ subs' = Append(subs, Len(queues) + 1)
    /\ taken' = Append(taken, [p \in {"loop", "monitor"} |-> 0])
    /\ UNCHANGED <<pubLeft, pubEvt, nPub>>

\* unsubscribe(q): self._subs = [x for x in self._subs if x is not q]
HubUnsubscribe ==
    /\ \E q \in 1 .. Len(queues) :
           /\ \E k \in 1 .. Len(subs) : subs[k] = q
           /\ subs' = SelectSeq(subs, LAMBDA x : x # q)
    /\ UNCHANGED <<queues, pubLeft, pubEvt, nPub, taken>>

\* The threads that publish during a run: the loop and the monitor callback.
Publishers == {"loop", "monitor"}

\* The event of the n-th publish() call, made by thread p: events are numbered
\* in call order, odd when published by the loop and even when by the monitor.
EventId(n, p) == 2 * n - (IF p = "loop" THEN 1 ELSE 0)
PublisherOf(e) == IF e % 2 = 1 THEN "loop" ELSE "monitor"

\* publish(): evt = SupervisorEvent(...); with self._lock: subs = list(self._subs)
HubPublishBegin(p) ==
    /\ pubEvt[p] = 0
    /\ nPub < MaxEvents
    /\ nPub' = nPub + 1
    /\ pubEvt' = [pubEvt EXCEPT ![p] = EventId(nPub', p)]
    /\ pubLeft' = [pubLeft EXCEPT ![p] = subs]
    /\ UNCHANGED <<subs, queues, taken>>

\* the delivery loop stopping at the first full queue
HubPublishPut_StopOnFull(p) ==
    /\ pubEvt[p] # 0
    /\ pubLeft[p] # <<>>
    /\ LET q == Head(pubLeft[p])
           r == put_nowait(queues[q], pubEvt[p])
       IN  /\ queues' = [queues EXCEPT ![q] = r.items]
           /\ pubLeft' = [pubLeft EXCEPT ![p] = IF r.full THEN <<>> ELSE Tail(@)]
    /\ UNCHANGED <<subs, pubEvt, nPub, taken>>

\* the delivery loop moving on only from a full queue
HubPublishPut_UntilFull(p) ==
    /\ pubEvt[p] # 0
    /\ pubLeft[p] # <<>>
    /\ LET q == Head(pubLeft[p])
           r == put_nowait(queues[q], pubEvt[p])
       IN  /\ queues' = [queues EXCEPT ![q] = r.items]
           /\ pubLeft' = [pubLeft EXCEPT ![p] = IF r.full THEN Tail(@) ELSE @]
    /\ UNCHANGED <<subs, pubEvt, nPub, taken>>

\* for q in subs: try: q.put_nowait(evt) except Exception: pass
HubPublishPut(p) ==
    /\ pubEvt[p] # 0
    /\ pubLeft[p] # <<>>
    /\ LET q == Head(pubLeft[p])
           r == put_nowait(queues[q], pubEvt[p])
       IN  /\ queues' = [queues EXCEPT ![q] = r.items]
           /\ pubLeft' = [pubLeft EXCEPT ![p] = Tail(@)]
    /\ UNCHANGED <<subs, pubEvt, nPub, taken>>

\* publish() returns
HubPublishEnd(p) ==
    /\ pubEvt[p] # 0
    /\ pubLeft[p] = <<>>
    /\ pubEvt' = [pubEvt EXCEPT ![p] = 0]
    /\ UNCHANGED <<subs, queues, pubLeft, nPub, taken>>

\* a subscriber takes the oldest event from its queue
HubGet ==
    /\ \E q \in 1 .. Len(queues) :
           /\ queues[q] # <<>>
           /\ queues' = [queues EXCEPT ![q] = Tail(@)]
           /\ taken' = [taken EXCEPT ![q][PublisherOf(Head(queues[q]))] = Head(queues[q])]
    /\ UNCHANGED <<subs, pubLeft, pubEvt, nPub>>

InitHub ==
    /\ InitControlVars
    /\ InitCacheVars
    /\ hash_threshold = 0
    /\ InitLoopVars
    /\ InitExtraVars
    /\ hang_on_finished = FALSE
    /\ hang_on_call_user = FALSE

\* everything but the hub's queues
hubRest == <<controlVars, controlHist, cacheVars, hubVars, loopVars, guidHist,
             l0Vars, tailVars, hubCall>>

NextHub ==
    \/ HubSubscribe /\ UNCHANGED hubRest
    \/ HubUnsubscribe /\ UNCHANGED hubRest
    \/ (\E p \in Publishers : HubPublishBegin(p)) /\ UNCHANGED hubRest
    \/ (\E p \in Publishers : HubPublishPut(p)) /\ UNCHANGED hubRest
    \/ (\E p \in Publishers : HubPublishEnd(p)) /\ UNCHANGED hubRest
    \/ HubGet /\ UNCHANGED hubRest

SpecHub == InitHub /\ [][NextHub]_vars

\* --------------------------------------------------------- SpecHubStatus
\* SupervisorHub.set_status and get_status called by the loop thread and by
\* the monitor thread's _on_act.  set_status takes no lock: its two
\* statements are two steps, and the other thread may run between them.

\* self._last_status = {"status": status, **extra}
HubSetStatusStore(p) ==
    /\ hubCall[p] = ""
    /\ \E st \in Statuses :
           /\ hub_last_status' = StatusData(st, "", "", NoStep)
           /\ hubCall' = [hubCall EXCEPT ![p] = st]
    /\ UNCHANGED <<lastPub, snap>>

\* self.publish("status", self._last_status)
HubSetStatusPublish(p) ==
    /\ hubCall[p] # ""
    /\ lastPub' = Event("status", hub_last_status.status, hub_last_status.error,
                         hub_last_status.reason, hub_last_status.step, "")
    /\ hubCall' = [hubCall EXCEPT ![p] = ""]
    /\ UNCHANGED <<hub_last_status, snap>>

\* get_status(): return dict(self._last_status)
HubGetStatus ==
    /\ snap' = hub_last_status.status
    /\ UNCHANGED <<hub_last_status, lastPub, hubCall>>

\* everything but the hub's status, its last event and the caller's result
hubStatusRest == <<controlVars, controlHist, cacheVars, conv, cfgVars, pc, step,
                   parse_err_streak, pred, err, monVars, callCounts, exit, pauseHist,
                   routerCalls, parseLog, guidHist, l0Vars, hubQVars, tailVars>>

NextHubStatus ==
    \/ (\E p \in Publishers : HubSetStatusStore(p)) /\ UNCHANGED hubStatusRest
    \/ (\E p \in Publishers : HubSetStatusPublish(p)) /\ UNCHANGED hubStatusRest
    \/ HubGetStatus /\ UNCHANGED hubStatusRest

SpecHubStatus == InitHub /\ [][NextHubStatus]_vars

\* ------------------------------------------------ Spec: Worker.run(...)
\* The loop thread and an external supervisor calling pause / resume / stop /
\* inject at any time. The monitor thread's only effect on WorkerControl is a
\* pause() call, which the supervisor's pause() covers; SpecMonitor adds the
\* monitor thread with its hub publications.
Init ==
    /\ InitControlVars
    /\ InitCacheVars
    /\ hash_threshold = 0
    /\ InitLoopVars
    /\ InitExtraVars
    /\ hang_on_finished \in BOOLEAN
    /\ hang_on_call_user \in BOOLEAN

Next ==
    \/ RunStart /\ UNCHANGED <<cacheVars, controlHist, extraVars>>
    \/ Snapshot("start_snap", "start_hub") /\ UNCHANGED <<cacheVars, controlHist, extraVars>>
    \/ Snapshot("launch_snap", "launch_hub") /\ UNCHANGED <<cacheVars, controlHist, extraVars>>
    \/ Snapshot("stop_snap", "stop_hub") /\ UNCHANGED <<cacheVars, controlHist, extraVars>>
    \/ Snapshot("max_snap", "max_hub") /\ UNCHANGED <<cacheVars, controlHist, extraVars>>
    \/ Snapshot("hang_snap", "hang_hub") /\ UNCHANGED <<cacheVars, controlHist, extraVars>>
    \/ Snapshot("end_snap", "end_hub") /\ UNCHANGED <<cacheVars, controlHist, extraVars>>
    \/ Snapshot("run_snap", "run_hub") /\ UNCHANGED <<cacheVars, controlHist, extraVars>>
    \/ Snapshot("exc_snap", "exc_hub") /\ UNCHANGED <<cacheVars, controlHist, extraVars>>
    \/ RunStartHub /\ UNCHANGED <<cacheVars, controlHist, extraVars>>
    \/ RunLaunch /\ UNCHANGED <<cacheVars, controlHist, extraVars>>
    \/ RunLaunchRaises /\ UNCHANGED <<cacheVars, controlHist, extraVars>>
    \/ RunLaunchHub /\ UNCHANGED <<cacheVars, controlHist, extraVars>>
    \/ RunTop /\ UNCHANGED <<cacheVars, controlHist, extraVars>>
    \/ RunStopSet /\ UNCHANGED <<cacheVars, controlHist, extraVars>>
    \/ RunStopHub /\ UNCHANGED <<cacheVars, controlHist, extraVars>>
    \/ RunGate /\ UNCHANGED <<cacheVars, controlHist, extraVars>>
    \/ RunSleep /\ UNCHANGED <<cacheVars, controlHist, extraVars>>
    \/ RunPop /\ UNCHANGED <<cacheVars, controlHist, extraVars>>
    \/ RunMaxSet /\ UNCHANGED <<cacheVars, controlHist, extraVars>>
    \/ RunMaxHub /\ UNCHANGED <<cacheVars, controlHist, extraVars>>
    \/ RunCapture /\ UNCHANGED <<cacheVars, controlHist, extraVars>>
    \/ RunInvoke /\ UNCHANGED <<cacheVars, controlHist, extraVars>>
    \/ RunDispatch /\ UNCHANGED <<cacheVars, controlHist, extraVars>>
    \/ RunHangSet /\ UNCHANGED <<cacheVars, controlHist, extraVars>>
    \/ RunHangPause /\ UNCHANGED <<cacheVars, controlHist, extraVars>>
    \/ RunHangHub /\ UNCHANGED <<cacheVars, controlHist, extraVars>>
    \/ RunEndSet /\ UNCHANGED <<cacheVars, controlHist, extraVars>>
    \/ RunEndHub /\ UNCHANGED <<cacheVars, controlHist, extraVars>>
    \/ RunExecute /\ UNCHANGED <<cacheVars, controlHist, extraVars>>
    \/ RunRunningSet /\ UNCHANGED <<cacheVars, controlHist, extraVars>>
    \/ RunRunningHub /\ UNCHANGED <<cacheVars, controlHist, extraVars>>
    \/ RunExceptSet /\ UNCHANGED <<cacheVars, controlHist, extraVars>>
    \/ RunExceptHub /\ UNCHANGED <<cacheVars, controlHist, extraVars>>
    \/ EnvPause /\ UNCHANGED <<cacheVars, extraVars>>
    \/ EnvResume /\ UNCHANGED <<cacheVars, extraVars>>
    \/ EnvStop /\ UNCHANGED <<cacheVars, extraVars>>
    \/ EnvInject /\ UNCHANGED <<cacheVars, extraVars>>

Spec == Init /\ [][Next]_vars

\* The loop thread is an OS thread that keeps being scheduled, and every
\* collaborator call it makes returns or raises.
LoopNext == LoopStep /\ UNCHANGED <<cacheVars, controlHist, extraVars>>

\* A run whose supervisor pauses, resumes and stops but injects no guidance
\* (guidance only reaches the conversation, never the control flow).
NextFair ==
    \/ LoopNext
    \/ EnvPause /\ UNCHANGED <<cacheVars, extraVars>>
    \/ EnvResume /\ UNCHANGED <<cacheVars, extraVars>>
    \/ EnvStop /\ UNCHANGED <<cacheVars, extraVars>>

FairSpec == Init /\ [][NextFair]_vars /\ WF_vars(LoopNext)

\* a resume() or stop() made while the control is paused
Unpark == paused /\ (EnvResume \/ EnvStop) /\ UNCHANGED <<cacheVars, extraVars>>

\* a pause() made by the supervisor
ExternalPause == EnvPause /\ UNCHANGED <<cacheVars, extraVars>>

\* FairSpec in which a paused control is eventually resumed or stopped.
LiveSpec ==
    /\ Init /\ [][NextFair]_vars
    /\ WF_vars(LoopNext)
    /\ WF_vars(Unpark)

\* A run whose supervisor may stop it and may inject any guidance string,
\* the empty one included.
EnvInjectAny ==
    /\ injectCount < MaxGuidance
    /\ \E t \in GuidanceTexts : inject(t) /\ injLog' = Append(injLog, t)
    /\ injectCount' = injectCount + 1
    /\ UNCHANGED <<popRet, stopCalled, popLog, ctlCall>>
    /\ UNCHANGED <<hubVars, loopVars>>

NextGuidance ==
    \/ LoopNext
    \/ EnvStop /\ UNCHANGED <<cacheVars, extraVars>>
    \/ EnvInjectAny /\ UNCHANGED <<cacheVars, extraVars>>

SpecGuidance == Init /\ [][NextGuidance]_vars

\* Spec together with the user-input monitor thread that run() starts.
MonitorNext == MonitorStep /\ UNCHANGED <<cacheVars, controlHist, extraVars>>

SpecMonitor == Init /\ [][Next \/ MonitorNext]_vars

\* ------------------------------------------------------------------ claims

\* C1: in every state reached after stop() has been called, stopped is true
\* and status is USER_STOPPED, whatever pause / resume / set_status(s) /
\* inject / pop_injected calls follow.
C1_StopIsTerminal == stopCalled => (stopped /\ status = "USER_STOPPED")

\* stop() was called and then set_status, pause or resume tried to move on:
\* the control is paused (a pause() ran) with a guidance string queued.
C1_Witness == stopCalled /\ paused /\ Len(injected) = 1 /\ popRet # None

\* Number of bit positions in which two fingerprints differ.
DiffBits(a, b) ==
    Cardinality({k \in 0 .. (FpBits - 1) : (a \div (2 ^ k)) % 2 # (b \div (2 ^ k)) % 2})

\* Entries lookup may return: succeeded and with reuse budget left.
Eligible == {i \in 1 .. Len(entries) :
                entries[i].succeeded /\ entries[i].hit_count < max_reuse}

Keys(es) == {es[i].fingerprint : i \in 1 .. Len(es)}

\* C3: verify_and_commit has exactly three outcomes.  Execution failed: the
\* entry is marked failed, stays in the cache with its hit_count, False is
\* returned.  Else post_fp present and equal to entry.fingerprint: the entry
\* is removed, False is returned.  Otherwise hit_count grows by one,
\* last_step becomes step, True is returned.
C3_VerifyOutcomes ==
    [][rpc = "replayed" =>
        LET e == entries[hit]
        IN  IF ~args.success
            THEN /\ lastCall'.ret = FALSE
                 /\ Len(entries') = Len(entries)
                 /\ entries'[hit] = [e EXCEPT !.succeeded = FALSE]
                 /\ \A j \in 1 .. Len(entries) : j # hit => entries'[j] = entries[j]
            ELSE IF args.post_fp # NoFp /\ args.post_fp = e.fingerprint
            THEN /\ lastCall'.ret = FALSE
                 /\ e.fingerprint \notin Keys(entries')
                 /\ Len(entries') = Len(entries) - 1
                 /\ \A j \in 1 .. Len(entries) :
                       j # hit => \E k \in 1 .. Len(entries') : entries'[k] = entries[j]
            ELSE /\ lastCall'.ret = TRUE
                 /\ Len(entries') = Len(entries)
                 /\ entries'[hit] = [e EXCEPT !.hit_count = e.hit_count + 1,
                                              !.last_step = rstep]
                 /\ \A j \in 1 .. Len(entries) : j # hit => entries'[j] = entries[j]
      ]_vars

\* A replay was verified and committed: the entry's hit was counted.
C3_Witness ==
    /\ lastCall = [op |-> "verify_and_commit", ret |-> TRUE]
    /\ \E i \in 1 .. Len(entries) :
          entries[i].hit_count = 1 /\ entries[i].last_step = rstep

\* C4: the router never counts a replay as a hit when the fingerprint
\* observed after the replay equals the fingerprint that was looked up before
\* it, for near-match hits as well as exact hits.
C4_NoHitWithoutScreenChange ==
    [][(rpc = "replayed" /\ args.post_fp = curFp) =>
          /\ lastCall'.ret = FALSE
          /\ \A k \in 1 .. Len(entries') :
                entries'[k].fingerprint = entries[hit].fingerprint
                    => entries'[k].hit_count = entries[hit].hit_count
      ]_vars

\* C5: in every cycle the loop fingerprints the captured screen and tries the
\* cache before any model invocation: whenever the model has been invoked in
\* the current cycle, an L0Router method was called in that cycle before it.
C5_CacheTriedBeforeModel == pc = "dispatch" => routerCalls > 0

\* The program points of the two stop branches and of the handler.
StopPath == {"stop_set", "stop_snap", "stop_hub"}

ExceptPath == {"exc_set", "exc_snap", "exc_hub"}

\* No capture, model invocation or action execution in this step.
NoCollaboratorCall ==
    /\ nCapture' = nCapture
    /\ nInvoke' = nInvoke
    /\ nExecute' = nExecute

\* C6: whenever the loop reaches a cycle boundary, or wakes in the pause poll,
\* with stopped = true, it takes the stop branch; the stop branch sets status
\* USER_STOPPED, publishes that status on the hub and returns without a
\* capture, model invocation or action execution; and once stop() has been
\* called the run eventually terminates with status USER_STOPPED.
C6_StopTerminates ==
    /\ [][(pc \in {"top", "sleep"} /\ stopped /\ pc' # pc) => pc' = "stop_set"]_vars
    /\ [][(pc \in StopPath) => (NoCollaboratorCall /\ pc' \in StopPath \cup {"done"})]_vars
    /\ [][(pc = "stop_set" /\ pc' = "stop_snap") => status' = "USER_STOPPED"]_vars
    /\ [](exit = "stopped" =>
             /\ pc = "done"
             /\ status = "USER_STOPPED"
             /\ hub_last_status = StatusData("USER_STOPPED", "", "", NoStep)
             /\ lastPub = Event("status", "USER_STOPPED", "", "", NoStep, ""))
    /\ (stopCalled ~> (pc = "done" /\ status = "USER_STOPPED"))

\* a run that captured, was paused, woke in the pause poll with stopped = true
\* and returned through the stop branch
C6_Witness == exit = "stopped" /\ nCapture >= 1 /\ paused /\ pc = "done"

\* C7: while paused is true and stopped is false the loop starts no new cycle:
\* since the last pause() no cycle has passed the gate until resume() is
\* called, a loop waiting at the gate stays at the gate, and the end-of-cycle
\* set_status(RUNNING) neither clears paused nor changes the status.
C7_PauseHoldsLoop ==
    /\ [](pauseCalled => (paused /\ ~startedSincePause))
    /\ [][(paused /\ paused' /\ pc \in {"gate", "sleep"}) =>
              (NoCollaboratorCall /\ step' = step
               /\ pc' \in {"gate", "sleep", "stop_set"})]_vars
    /\ [][(pc = "run_set" /\ pc' = "run_snap" /\ paused) =>
              (paused' /\ status' = status)]_vars

\* a pause() made in the middle of a cycle: the cycle completed, its
\* end-of-cycle status publication carries PAUSE, and the loop is parked
C7_Witness ==
    /\ pauseCalled
    /\ ~stopped
    /\ pc = "sleep"
    /\ status = "PAUSE"
    /\ nExecute >= 1
    /\ hub_last_status = StatusData("PAUSE", "", "", step)

\* C8: a call raising inside a cycle passes control to the handler, which sets
\* status ERROR, publishes an error event carrying the step number and the
\* failure description and returns with no further cycle; if stop() was not
\* called the final status is ERROR.
C8_ExceptionTerminates ==
    /\ [][(err' # err /\ pc # "launch") =>
              (pc \in {"capture", "invoke", "execute"} /\ pc' = "exc_set")]_vars
    /\ [][(pc \in ExceptPath) =>
              (NoCollaboratorCall /\ step' = step /\ pc' \in ExceptPath \cup {"done"})]_vars
    /\ [][(pc = "exc_set" /\ pc' = "exc_snap") =>
              status' = (IF stopped THEN "USER_STOPPED" ELSE "ERROR")]_vars
    /\ [][(pc = "done") => (pc' = "done")]_vars
    /\ [](exit = "error" =>
             /\ pc = "done"
             /\ err # ""
             /\ lastPub = Event("error", "", err, "loop", step, "")
             /\ hub_last_status.error = err
             /\ hub_last_status.step = step
             /\ hub_last_status.status \in {"ERROR", "USER_STOPPED"}
             /\ (~stopCalled => status = "ERROR"))
    /\ (pc \in ExceptPath ~> exit = "error")

\* an action execution raising in the second cycle of a run nobody stopped
C8_Witness ==
    /\ exit = "error"
    /\ err = "execute_action"
    /\ step = 2
    /\ status = "ERROR"
    /\ ~stopCalled

\* The number of parse errors at the end of the log of the last cycles.
RECURSIVE TrailingErrors(_)
TrailingErrors(q) ==
    IF q = <<>> \/ ~q[Len(q)] THEN 0 ELSE 1 + TrailingErrors(SubSeq(q, 1, Len(q) - 1))

HangPath == {"hang_set", "hang_pause", "hang_snap", "hang_hub"}

\* C9: the loop parks itself for parse errors exactly when the last three
\* cycles' first parsed actions were all parse errors; parking sets status
\* HANG, calls pause(), publishes a hang event, executes nothing and goes back
\* to the gate; the streak is what the log of cycles says and is reset only by
\* a cycle whose first parsed action is not a parse error.
C9_ParseErrorHang ==
    /\ [][(pc = "dispatch" /\ pc' # pc /\ pred = "error_env") =>
              (pc' = "hang_set" <=> TrailingErrors(parseLog) >= 3)]_vars
    /\ [][(pc = "dispatch" /\ pc' # pc) =>
              parse_err_streak' = (IF pred = "error_env" THEN parse_err_streak + 1 ELSE 0)]_vars
    /\ [][(parse_err_streak' # parse_err_streak) => pc = "dispatch"]_vars
    /\ [](pc \in {"top", "gate", "sleep", "pop", "capture", "invoke"} =>
             (parse_err_streak >= 3 <=> TrailingErrors(parseLog) >= 3)
             /\ (parse_err_streak < 3 => parse_err_streak = TrailingErrors(parseLog)))
    /\ [][(pc \in HangPath) => (NoCollaboratorCall /\ pc' \in HangPath \cup {"top"})]_vars
    /\ [][(pc = "hang_set" /\ pc' = "hang_pause") =>
              status' = (IF stopped THEN "USER_STOPPED" ELSE "HANG")]_vars
    /\ [][(pc = "hang_pause" /\ pc' = "hang_snap") => paused']_vars
    /\ [][(pc = "hang_hub" /\ pc' = "top" /\ pred = "error_env") =>
              /\ lastPub' = Event("hang", "", "", "parse_error_streak", NoStep, "")
              /\ hub_last_status'.reason = "parse_error_streak"
              /\ TrailingErrors(parseLog) >= 3]_vars

\* the loop parked after exactly three parse errors in a row, nothing executed
C9_Witness ==
    /\ lastPub = Event("hang", "", "", "parse_error_streak", NoStep, "")
    /\ pc = "sleep"
    /\ parse_err_streak = 3
    /\ step = 3
    /\ paused
    /\ status = "HANG"

EntryOf(es, k) == es[IndexOfKey(es, k)]

\* Keys held before and after the last call.
Surviving == Keys(entriesBefore) \cap Keys(entries)

\* C11: store of a new key into a full cache removes exactly one entry, one of
\* least last_step among the entries held; store of a key already present
\* replaces that key's entry and removes nothing, even at capacity; below
\* capacity store removes nothing; every entry kept is left as it was.
C11_StoreEviction ==
    lastCall.op = "store" =>
        /\ curFp \in Keys(entries)
        /\ EntryOf(entries, curFp) = L0CacheEntry(curFp, <<"click">>, NoFp, 0, rstep, TRUE)
        /\ Len(entries) = Cardinality(Keys(entries))
        /\ \A k \in Keys(entries) \ {curFp} :
               k \in Keys(entriesBefore) /\ EntryOf(entries, k) = EntryOf(entriesBefore, k)
        /\ IF curFp \in Keys(entriesBefore) \/ Len(entriesBefore) < max_entries
           THEN Keys(entries) = Keys(entriesBefore) \cup {curFp}
           ELSE \E k \in Keys(entriesBefore) :
                    /\ Keys(entries) = (Keys(entriesBefore) \ {k}) \cup {curFp}
                    /\ \A j \in Keys(entriesBefore) :
                           EntryOf(entriesBefore, k).last_step
                               <= EntryOf(entriesBefore, j).last_step

\* a new key stored into a full cache whose first-inserted entry had been
\* hit since: that entry is kept and a later-inserted, unused one went
C11_Witness ==
    /\ lastCall.op = "store"
    /\ Len(entriesBefore) = max_entries
    /\ curFp \notin Keys(entriesBefore)
    /\ entriesBefore[1].hit_count > 0
    /\ entriesBefore[1].fingerprint \in Keys(entries)

\* C12: an entry is returned by lookup of its own fingerprint exactly while
\* fewer than max_reuse record_hit calls have been applied to it since it was
\* stored (and it has not failed); hit_count is that number: 0 at store, one
\* more at each record_hit, unchanged by every other call.
C12_ReuseBudget ==
    /\ (lastCall.op = "lookup" /\ curFp \in Keys(entries)) =>
           LET i == IndexOfKey(entries, curFp)
           IN  hit = i <=> (entries[i].succeeded /\ entries[i].hit_count < max_reuse)
    /\ lastCall.op = "record_hit" =>
           EntryOf(entries, curFp).hit_count = EntryOf(entriesBefore, curFp).hit_count + 1
    /\ lastCall.op = "store" => EntryOf(entries, curFp).hit_count = 0
    /\ \A k \in Surviving :
           (lastCall.op \notin {"record_hit", "store"} \/ k # curFp) =>
               EntryOf(entries, k).hit_count = EntryOf(entriesBefore, k).hit_count

\* lookup of the fingerprint of an entry that succeeded and has had max_reuse
\* record_hit calls: nothing is returned
C12_Witness ==
    /\ lastCall.op = "lookup"
    /\ curFp \in Keys(entries)
    /\ EntryOf(entries, curFp).succeeded
    /\ EntryOf(entries, curFp).hit_count = max_reuse
    /\ hit = 0

\* C13: no call turns the succeeded flag of an entry from false to true (store
\* on the entry's key puts a new L0CacheEntry in its place); lookup never
\* returns an entry whose flag is false; mark_failed keeps the entry in the
\* cache, where it counts toward len(_entries) and stats()["failed"].
C13_FailedStaysFailed ==
    /\ \A k \in Surviving :
           (~EntryOf(entriesBefore, k).succeeded /\ ~(lastCall.op = "store" /\ k = curFp))
               => ~EntryOf(entries, k).succeeded
    /\ (lastCall.op = "lookup" /\ hit # 0) => entries[hit].succeeded
    /\ lastCall.op = "mark_failed" =>
           /\ Keys(entries) = Keys(entriesBefore)
           /\ Len(entries) = Len(entriesBefore)
           /\ ~EntryOf(entries, curFp).succeeded
    /\ lastCall.op = "stats" =>
           /\ statsRet.total = Len(entries)
           /\ statsRet.failed =
                  Cardinality({k \in Keys(entries) : ~EntryOf(entries, k).succeeded})
    /\ Len(entries) <= max_entries

\* stats() on a full cache one of whose entries has failed
C13_Witness ==
    /\ lastCall.op = "stats"
    /\ statsRet.failed = 1
    /\ statsRet.total = max_entries

\* The events in a queue.
Held(q) == {queues[q][k] : k \in 1 .. Len(queues[q])}

\* Thread p's publish() serves the next queue of its copy of _subs.
PutStep(p) == pubEvt[p] # 0 /\ pubEvt'[p] = pubEvt[p] /\ pubLeft'[p] # pubLeft[p]

\* C14: publish never blocks and never raises: it serves every queue that was
\* registered when it took the lock, one after the other; on a queue that
\* already holds maxsize events the event is dropped and the contents of all
\* queues are left as they were, on any other queue the event is appended and
\* nothing else changes; no queue ever holds more than maxsize events.
C14_PublishDropsOnFull ==
    /\ [][\A p \in Publishers :
              (pubEvt[p] = 0 /\ pubEvt'[p] # 0) => pubLeft'[p] = subs]_vars
    /\ [][\A p \in Publishers :
              PutStep(p) =>
                  LET q == Head(pubLeft[p])
                  IN  /\ pubLeft'[p] = Tail(pubLeft[p])
                      /\ queues' = IF Len(queues[q]) >= QueueMaxsize THEN queues
                                   ELSE [queues EXCEPT ![q] = Append(@, pubEvt[p])]]_vars
    /\ [](\A p \in Publishers :
              (pubEvt[p] # 0 /\ pubLeft[p] # <<>>) => ENABLED HubPublishPut(p))
    /\ [](\A q \in 1 .. Len(queues) : Len(queues[q]) <= QueueMaxsize)

\* the last publish() has returned: the first registered queue was full and
\* did not get the event, the queue registered after it did
C14_Witness ==
    /\ nPub >= 1
    /\ \A p \in Publishers : pubEvt[p] = 0
    /\ Len(subs) = 2
    /\ Len(queues[subs[1]]) = QueueMaxsize
    /\ \E p \in Publishers :
           EventId(nPub, p) \notin Held(subs[1]) /\ EventId(nPub, p) \in Held(subs[2])

\* Positions of the assistant turns of a log.
AssistantTurns(items) == {i \in 1 .. Len(items) : items[i].role = "assistant"}

\* Position of the n-th most recent assistant turn (there are at least n).
NthLastAssistant(items, n) ==
    CHOOSE i \in AssistantTurns(items) :
        Cardinality({j \in AssistantTurns(items) : j >= i}) = n

\* C15: _tail_items_by_rounds(n), n >= 1, returns the whole log when it has
\* fewer than n assistant turns; otherwise the suffix starting at the n-th
\* most recent assistant turn, extended by the item before it exactly when
\* that item is a user turn.  The result holds min(n, number of assistant
\* turns) assistant turns.
C15_TailByRounds ==
    tailN # 0 =>
        LET turns == Cardinality(AssistantTurns(conv))
        IN  /\ IF turns < tailN THEN tailRet = conv
               ELSE LET a == NthLastAssistant(conv, tailN)
                        from == IF a > 1 /\ conv[a - 1].role = "user" THEN a - 1 ELSE a
                    IN  tailRet = SubSeq(conv, from, Len(conv))
            /\ Cardinality(AssistantTurns(tailRet)) = (IF turns < tailN THEN turns ELSE tailN)

\* [system, user1, assistant1, user2, assistant2] with n = 1: [user2, assistant2]
C15_Witness ==
    /\ tailN = 1
    /\ Len(conv) = 5
    /\ [k \in 1 .. 5 |-> conv[k].role] = <<"system", "user", "assistant", "user", "assistant">>
    /\ tailRet = SubSeq(conv, 4, 5)

\* C16: set_status never changes paused, stopped or the guidance queue; while
\* paused and not stopped, set_status(RUNNING) leaves the status as it is and
\* set_status of any other status assigns it; while neither paused nor
\* stopped, set_status(s) assigns s.
C16_SetStatusFrame ==
    [][(ctlCall'.op = "set_status" /\ <<status, ctlCall>>' # <<status, ctlCall>>) =>
           /\ UNCHANGED <<paused, stopped, injected>>
           /\ (paused /\ ~stopped /\ ctlCall'.arg = "RUNNING") => status' = status
           /\ (paused /\ ~stopped /\ ctlCall'.arg # "RUNNING") => status' = ctlCall'.arg
           /\ (~paused /\ ~stopped) => status' = ctlCall'.arg]_vars

\* set_status(RUNNING) has just been called on a control that is paused in
\* HANG and not stopped, with guidance pending
C16_Witness ==
    /\ ctlCall = Call("set_status", "RUNNING")
    /\ paused
    /\ ~stopped
    /\ status = "HANG"
    /\ injected # <<>>

\* C17: the guidance queue is FIFO and lossless: the strings passed to inject,
\* in lock order, are the non-None values pop_injected has returned followed
\* by the strings still queued; pop_injected returns None exactly when the
\* queue is empty, and otherwise returns and removes the oldest string.
C17_GuidanceFifo ==
    /\ [](injLog = popLog \o injected)
    /\ [][(ctlCall'.op = "pop_injected"
           /\ <<injected, popRet, ctlCall>>' # <<injected, popRet, ctlCall>>) =>
              /\ popRet' = None <=> injected = <<>>
              /\ injected # <<>> =>
                     (popRet' = Head(injected) /\ injected' = Tail(injected))
              /\ injected = <<>> => injected' = <<>>]_vars
    /\ [][(ctlCall'.op = "inject" /\ injLog' # injLog) =>
              injected' = Append(injected, ctlCall'.arg)]_vars

\* two different strings were injected and popped in that order, and a
\* further pop on the empty queue returned None
C17_Witness ==
    /\ Len(popLog) = 2
    /\ popLog[1] # popLog[2]
    /\ popLog = injLog
    /\ injected = <<>>
    /\ popRet = None
    /\ ctlCall = Call("pop_injected", "")

\* The texts of the conversation turns tagged injected, oldest first.
InjectedTurns == SelectSeq(conv, LAMBDA it : it.injected)

\* C18: every guidance string the loop has popped is in the conversation as a
\* user turn tagged injected, exactly once and in injection order: the
\* injected turns are the popped strings, each behind the guidance header.
C18_PoppedGuidanceInConversation ==
    /\ Len(InjectedTurns) = Len(popLog)
    /\ \A k \in 1 .. Len(InjectedTurns) :
           /\ InjectedTurns[k].role = "user"
           /\ InjectedTurns[k].text = "[Supervisor Guidance]\n" \o popLog[k]

EndPath == {"end_set", "end_snap", "end_hub"}

\* The terminal status of a first parsed action finished / call_user.
TerminalStatus(p) == IF p = "finished" THEN "END" ELSE "CALL_USER"

\* hang_on_finished for finished, hang_on_call_user for call_user.
HangConfigured(p) ==
    \/ p = "finished" /\ hang_on_finished
    \/ p = "call_user" /\ hang_on_call_user

\* C19: a first parsed action finished (call_user) takes the hang branch when
\* hang_on_finished (hang_on_call_user) is set and the end branch otherwise;
\* the hang branch sets status HANG, calls pause(), publishes a hang event
\* with the action as reason and returns to the top of the loop without
\* exiting; the end branch sets status END (CALL_USER), publishes it on the
\* hub and returns; neither branch captures, invokes the model or executes.
C19_TerminalActions ==
    /\ [][(pc = "dispatch" /\ pc' # pc /\ pred \in {"finished", "call_user"}) =>
              pc' = (IF HangConfigured(pred) THEN "hang_set" ELSE "end_set")]_vars
    /\ [][(pc \in HangPath) =>
              (NoCollaboratorCall /\ exit' = "" /\ pc' \in HangPath \cup {"top"})]_vars
    /\ [][(pc \in EndPath) =>
              (NoCollaboratorCall /\ pc' \in EndPath \cup {"done"})]_vars
    /\ [][(pc = "hang_set" /\ pc' = "hang_pause" /\ pred # "error_env") =>
              status' = (IF stopped THEN "USER_STOPPED" ELSE "HANG")]_vars
    /\ [][(pc = "hang_pause" /\ pc' = "hang_snap" /\ pred # "error_env") =>
              paused']_vars
    /\ [][(pc = "hang_hub" /\ pc' = "top" /\ pred # "error_env") =>
              /\ HangConfigured(pred)
              /\ lastPub' = Event("hang", "", "", pred, NoStep, "")
              /\ hub_last_status'.status = snap]_vars
    /\ [][(pc = "end_set" /\ pc' = "end_snap") =>
              status' = (IF stopped THEN "USER_STOPPED" ELSE TerminalStatus(pred))]_vars
    /\ [](exit \in {"finished", "call_user"} =>
             /\ pc = "done"
             /\ exit = pred
             /\ ~HangConfigured(pred)
             /\ hub_last_status.status \in {TerminalStatus(pred), "USER_STOPPED"}
             /\ (~stopCalled => status = TerminalStatus(pred)))

\* with hang_on_finished set and hang_on_call_user clear, the first cycle's
\* finished parked the loop, the supervisor resumed it, and the second
\* cycle's call_user ended the run; nothing was executed
C19_Witness ==
    /\ hang_on_finished
    /\ ~hang_on_call_user
    /\ exit = "call_user"
    /\ status = "CALL_USER"
    /\ hub_last_status.status = "CALL_USER"
    /\ step = 2
    /\ nInvoke = 2
    /\ nExecute = 0

\* C20: in every cycle that has executed a cacheable model-chosen action, the
\* router's record path has been called by the time the loop goes on to set
\* the status to RUNNING.
C20_RecordAfterExecute ==
    (pc = "run_set" /\ pred \notin UNCACHEABLE_ACTIONS) => routerCalls > 0

\* C21: whenever the loop is parked in the pause poll, the hub's last-known
\* status comes to equal the control's status: every change of status into a
\* semi-terminal or terminal value during the run is followed by a hub status
\* update carrying it.
C21_HubFollowsControl ==
    (pc = "sleep") ~> (hub_last_status.status = status)

\* The fingerprint fields of the entries, in dict order.
FingerprintsOf(es) == [i \in 1 .. Len(es) |-> es[i].fingerprint]

\* C22: after any sequence of store, record_hit, mark_failed, evict and lookup
\* calls the cache holds at most max_entries entries and no two entries with
\* the same fingerprint; the fingerprint an entry is filed under is never
\* changed: record_hit, mark_failed, lookup and stats leave the fingerprints
\* as they were, store adds at most the stored fingerprint and evict adds none.
C22_CacheWellFormed ==
    /\ Len(entries) <= max_entries
    /\ \A i, j \in 1 .. Len(entries) :
           entries[i].fingerprint = entries[j].fingerprint => i = j
    /\ lastCall.op \in {"record_hit", "mark_failed", "lookup", "stats"} =>
           FingerprintsOf(entries) = FingerprintsOf(entriesBefore)
    /\ lastCall.op = "store" =>
           /\ curFp \in Keys(entries)
           /\ Keys(entries) \subseteq Keys(entriesBefore) \cup {curFp}
    /\ lastCall.op = "evict" => Keys(entries) = Keys(entriesBefore) \ {curFp}

\* the last of MaxCalls calls stored a key already present in a full cache
C22_Witness ==
    /\ rstep = MaxCalls
    /\ lastCall.op = "store"
    /\ Len(entriesBefore) = max_entries
    /\ curFp \in Keys(entriesBefore)
    /\ Len(entries) = max_entries

\* C23: record(fp, actions, post_fp, step) leaves the cache as it was when fp
\* is None, when actions is empty or when one of the actions is finished,
\* call_user or a parse error; otherwise the cache then holds, under fp, an
\* entry with those actions and post_fp, hit_count 0, last_step = step and
\* succeeded = true.
C23_RecordFrame ==
    [][(rpc = "executed" /\ rpc' = "idle") =>
           IF \/ curFp = NoFp
              \/ args.actions = <<>>
              \/ \E k \in 1 .. Len(args.actions) : args.actions[k] \in UNCACHEABLE_ACTIONS
           THEN entries' = entries
           ELSE /\ curFp \in Keys(entries')
                /\ EntryOf(entries', curFp) =
                       L0CacheEntry(curFp, args.actions, args.post_fp, 0, rstep, TRUE)]_vars

\* record has just stored this cycle's click, with its post-fingerprint, into
\* a cache that holds another entry
C23_Witness ==
    /\ lastCall.op = "record"
    /\ Len(entries) = 2
    /\ \E i \in 1 .. Len(entries) :
           entries[i] = L0CacheEntry(entries[i].fingerprint, <<"click">>, 1, 0, rstep, TRUE)

\* C24: try_cache(fp, step) returns None when fp is None and otherwise what
\* lookup(fp) returns, and leaves the cache as it was: the same entries with
\* the same hit_count, last_step and succeeded, on a hit and on a miss.
C24_TryCacheFrame ==
    [][(rpc = "idle" /\ rpc' \in {"hit", "miss"}) =>
           /\ entries' = entries
           /\ hit' = (IF curFp' = NoFp THEN 0
                      ELSE lookup(entries, hash_threshold, curFp'))
           /\ rpc' = "hit" <=> hit' # 0
           /\ lastCall'.ret <=> hit' # 0]_vars

\* try_cache has just hit an entry stored for a neighbouring fingerprint
C24_Witness ==
    /\ lastCall = [op |-> "try_cache", ret |-> TRUE]
    /\ rpc = "hit"
    /\ hit # 0
    /\ entries[hit].fingerprint # curFp
    /\ entries[hit].hit_count = 0

\* The events of a sequence that thread p published.
ByThread(evts, p) == SelectSeq(evts, LAMBDA e : PublisherOf(e) = p)

C26_PauseResumeFrame ==
    /\ [][(ctlCall'.op = "pause" /\ <<status, paused, stopped, injected, ctlCall>>'
                                      # <<status, paused, stopped, injected, ctlCall>>) =>
              /\ paused'
              /\ status' = (IF status = "RUNNING" THEN "PAUSE" ELSE status)
              /\ UNCHANGED <<stopped, injected>>]_vars
    /\ [][(ctlCall'.op = "resume" /\ <<status, paused, stopped, injected, ctlCall>>'
                                       # <<status, paused, stopped, injected, ctlCall>>) =>
              /\ ~paused'
              /\ status' = (IF status \in {"PAUSE", "HANG"} THEN "RUNNING" ELSE status)
              /\ UNCHANGED <<stopped, injected>>]_vars
    /\ [](ctlCall.op = "pause" => (paused /\ status # "RUNNING"))
    /\ [](ctlCall.op = "resume" => (~paused /\ status \notin {"PAUSE", "HANG"}))

\* pause() has just been called on a control whose status was HANG, with a
\* guidance string queued: the status is still HANG
C26_Witness ==
    /\ ctlCall = Call("pause", "")
    /\ paused
    /\ status = "HANG"
    /\ ~stopped
    /\ injected # <<>>

TerminalStatuses == {"ERROR", "END", "CALL_USER"}

\* Where the loop is after a set_status(ERROR / END / CALL_USER): on its way
\* to the return that follows, or returned.
AfterTerminalSet ==
    {"launch_snap", "launch_hub", "max_snap", "max_hub", "end_snap", "end_hub",
     "exc_snap", "exc_hub", "done"}

\* C27: once the loop has set status ERROR, END or CALL_USER it is on its way
\* out: it captures, invokes and executes nothing more and assigns no status;
\* from then on the status changes only by stop(), to USER_STOPPED, and
\* pause() and resume() leave it as it is.
C27_TerminalStatus ==
    /\ [](status \in TerminalStatuses => pc \in AfterTerminalSet)
    /\ [][(status \in TerminalStatuses) =>
              /\ NoCollaboratorCall
              /\ pc' \in AfterTerminalSet
              /\ status' # status => (status' = "USER_STOPPED" /\ ~stopped /\ stopped')]_vars

\* the run ended on call_user and the control is paused: a pause() found the
\* status CALL_USER and left it
C27_Witness ==
    /\ pc = "done"
    /\ exit = "call_user"
    /\ status = "CALL_USER"
    /\ paused
    /\ ~stopped

\* The states the log has been in, given that it only grows at the end.
Prefixes(items) == {SubSeq(items, 1, k) : k \in 0 .. Len(items)}

\* C28: the conversation log is append-only: every change of the log adds one
\* item at the end and keeps the others in place, so the log is the added
\* items in the order of the adds; a read (items, the tail) leaves the log as
\* it is; what a read racing with adds returns is the list, or the tail, of
\* the log as it was at one instant between the read's call and its return.
C28_AppendOnly ==
    /\ [][conv' # conv =>
              (Len(conv') = Len(conv) + 1 /\ SubSeq(conv', 1, Len(conv)) = conv)]_vars
    /\ [](\A k \in 1 .. Len(conv) : conv[k].text = ItemTexts[k])
    /\ [][(reader' # reader \/ tailN' # 0) => conv' = conv]_vars
    /\ [](reader.pc = "copied" => reader.items \in Prefixes(conv))
    /\ [](reader.pc = "returned" =>
             /\ reader.items \in Prefixes(conv)
             /\ reader.ret = IF reader.n = 0 THEN reader.items
                             ELSE tail_items_by_rounds(reader.items, reader.n))
    /\ [](tailN # 0 => tailRet = tail_items_by_rounds(conv, tailN))

\* a tail of one round returned after two more items were added behind the
\* copy it was computed from: it is no longer the tail of the log
C28_Witness ==
    /\ reader.pc = "returned"
    /\ reader.n = 1
    /\ Len(reader.ret) = 2
    /\ Len(conv) = Len(reader.items) + 2
    /\ reader.ret # tail_items_by_rounds(conv, 1)

\* Where run() is before the conversation is set up.
StartUp == {"start", "start_snap", "start_hub", "launch", "launch_snap", "launch_hub"}

\* C29: on a control stop() has not been called on, run() first moves the
\* status to RUNNING and publishes RUNNING on the hub, and only then appends
\* the system prompt and the user instruction, which are the first two items
\* of the conversation when the first cycle starts.
C29_StartUp ==
    /\ [][(pc = "start" /\ pc' = "start_snap" /\ ~stopped) => status' = "RUNNING"]_vars
    /\ [][(pc = "start_hub" /\ pc' = "launch" /\ ~stopCalled) =>
              hub_last_status' = StatusData("RUNNING", "", "", NoStep)]_vars
    /\ [](pc \in {"start", "start_snap", "start_hub", "launch"} =>
              (conv = <<>> /\ step = 0 /\ nCapture = 0))
    /\ [](pc \notin StartUp /\ exit # "launch_app" =>
              /\ Len(conv) >= 2
              /\ conv[1] = ConversationItem("system", "system_prompt", FALSE)
              /\ conv[2] = ConversationItem("user", "instruction", FALSE))

\* C30: hub.set_status(status) records that status as the last-known status
\* and the status event it publishes carries that call's status, also when
\* the loop thread and the monitor thread call it at the same time;
\* get_status returns the last recorded status and publishes nothing.
C30_StatusEventIsOwn ==
    /\ [][\A p \in Publishers :
              (hubCall[p] = "" /\ hubCall'[p] # "") =>
                  hub_last_status'.status = hubCall'[p]]_vars
    /\ [][\A p \in Publishers :
              (hubCall[p] # "" /\ hubCall'[p] = "") =>
                  (lastPub'.type = "status" /\ lastPub'.status = hubCall[p])]_vars
    /\ [][snap' # snap => (snap' = hub_last_status.status /\ lastPub' = lastPub)]_vars

\* The queues registered in _subs.
Registered == {subs[k] : k \in 1 .. Len(subs)}

\* C31: once unsubscribe(q) has returned nothing is put into q any more, not
\* even by a publish() another thread is in the middle of; a publish() that
\* starts serves every queue registered at that moment, and puts its event
\* into each of them that is not full.
C31_NoDeliveryAfterUnsubscribe ==
    /\ [][\A q \in 1 .. Len(queues) :
              q \notin Registered => Len(queues'[q]) <= Len(queues[q])]_vars
    /\ [][\A p \in Publishers :
              (pubEvt[p] = 0 /\ pubEvt'[p] # 0) => pubLeft'[p] = subs]_vars
    /\ [][\A p \in Publishers :
              (PutStep(p) /\ Len(queues[Head(pubLeft[p])]) < QueueMaxsize) =>
                  queues'[Head(pubLeft[p])] =
                      Append(queues[Head(pubLeft[p])], pubEvt[p])]_vars

\* Bit k of a hash.
BitOf(h, k) == (h \div (2 ^ k)) % 2

\* C32: hamming_distance(a, b) is the number of bit positions in which a and
\* b differ; it is symmetric, zero exactly when a = b, and never more than the
\* width of the hashes.
C32_HammingCountsDifferingBits ==
    (rpc = "hamming") =>
        /\ args.distance =
               Cardinality({k \in 0 .. (HashBits - 1) : BitOf(args.a, k) # BitOf(args.b, k)})
        /\ args.distance = hamming_distance(args.b, args.a)
        /\ (args.distance = 0) <=> (args.a = args.b)
        /\ args.distance <= HashBits

\* Two hashes that differ in every bit, the second one the larger.
C32_Witness ==
    /\ rpc = "hamming"
    /\ args.a = 0
    /\ args.b = 2 ^ HashBits - 1
    /\ args.distance = HashBits

\* C33: driven through the router protocol, no entry's hit_count ever exceeds
\* max_reuse, and the entry a replay is committed on still has budget left.
C33_HitCountBounded ==
    /\ \A i \in 1 .. Len(entries) : entries[i].hit_count <= max_reuse
    /\ (rpc \in {"hit", "replayed"}) => entries[hit].hit_count < max_reuse

\* An entry replayed max_reuse times is looked up again by its own
\* fingerprint and misses: the model has to drive the step.
C33_Witness ==
    /\ rpc = "miss"
    /\ \E i \in 1 .. Len(entries) :
          /\ entries[i].fingerprint = curFp
          /\ entries[i].succeeded
          /\ entries[i].hit_count = max_reuse

\* C34: store on a key that is present puts a fresh entry in its place (the
\* actions and post_fingerprint of this call, hit_count 0, last_step = step,
\* succeeded), whatever the old entry was, leaves the other entries alone, and
\* a lookup of that fingerprint straight afterwards returns the new entry.
C34_StoreReplaces ==
    (lastCall.op = "store" /\ curFp \in Keys(entriesBefore)) =>
        LET at == IndexOfKey(entries, curFp)
        IN  /\ entries[at] =
                   L0CacheEntry(curFp, args.actions, args.post_fp, 0, rstep, TRUE)
            /\ Len(entries) = Len(entriesBefore)
            /\ \A k \in Keys(entriesBefore) \ {curFp} :
                   EntryOf(entries, k) = EntryOf(entriesBefore, k)
            /\ lookup(entries, hash_threshold, curFp) = at

\* The entry replaced had failed or had used up its budget, and held other
\* actions than the ones stored now.
C34_Witness ==
    /\ lastCall.op = "store"
    /\ curFp \in Keys(entriesBefore)
    /\ \/ ~EntryOf(entriesBefore, curFp).succeeded
       \/ EntryOf(entriesBefore, curFp).hit_count >= max_reuse
    /\ EntryOf(entriesBefore, curFp).actions # args.actions
    /\ EntryOf(entriesBefore, curFp).post_fingerprint # args.post_fp

\* C35: in every state WorkerControl can reach from (INIT, not paused, not
\* stopped) by calls of its methods in any order, paused implies that the
\* status is not RUNNING.
C35_PausedNotRunning == paused => status # "RUNNING"

\* pause() found the status RUNNING and made it PAUSE, and a set_status(RUNNING)
\* made since then has left it there.
C35_Witness ==
    /\ paused
    /\ ~stopped
    /\ status = "PAUSE"
    /\ ctlCall = Call("set_status", "RUNNING")

\* Model invocations the cycle under way still has ahead of it: one from the
\* pause gate up to the model call, none once the call has been made.
InvokesAhead == IF pc \in {"gate", "sleep", "pop", "capture", "invoke"} THEN 1 ELSE 0

\* Action executions the cycle under way still has ahead of it.
ExecutesAhead ==
    IF pc \in {"gate", "sleep", "pop", "capture", "invoke", "dispatch", "execute"}
    THEN 1 ELSE 0

\* C36: once stop() has returned the loop invokes the model at most once more
\* and executes at most one more action, and it terminates: from then on no
\* step puts another invocation or execution ahead of the loop (no later cycle
\* starts), and each one made uses up the one the cycle under way had left.
C36_BoundedCancellation ==
    /\ [][stopCalled =>
            /\ (nInvoke' - nInvoke) + InvokesAhead' <= InvokesAhead
            /\ (nExecute' - nExecute) + ExecutesAhead' <= ExecutesAhead]_vars
    /\ stopCalled ~> (pc = "done")

\* stop() has returned while the first cycle, past its stop check, is about
\* to invoke the model.
C36_Witness ==
    /\ stopCalled
    /\ stopped
    /\ pc = "invoke"
    /\ nInvoke = 0
    /\ nExecute = 0

\* C37: whenever the loop parks itself, the state in which its second control
\* call, pause(), returns has paused = TRUE and status = HANG unless stop() was
\* called, whatever pause(), resume() and stop() calls other threads make.
C37_ParkedIsHang ==
    [][(pc = "hang_pause" /\ pc' = "hang_snap" /\ ~stopCalled) =>
          (paused' /\ status' = "HANG")]_vars

\* C38: the message list of every model invocation contains the run's
\* original user instruction, however many assistant turns the conversation
\* holds by then.
C38_InstructionInMessages ==
    (pc = "invoke") =>
        \E k \in 1 .. Len(BuildMessages(conv)) :
            BuildMessages(conv)[k] = [role |-> "user", content |-> "instruction"]

\* C39: in a cycle whose first parsed action is a parse error, whatever the
\* streak, execute_action is not called: the parse-error action is never
\* handed to the input-execution collaborator.
C39_ParseErrorNotExecuted ==
    [][(pred = "error_env" /\ pc \in {"dispatch", "execute"}) =>
          nExecute' = nExecute]_vars

\* The run is over with one of the final statuses.
Terminated == pc = "done" /\ status \in {"ERROR", "END", "CALL_USER", "USER_STOPPED"}

\* C40: when every collaborator call returns and every pause is followed by a
\* resume() or stop(), the run terminates, with final status ERROR, END,
\* CALL_USER or USER_STOPPED.
C40_RunTerminates == <>Terminated

\* C40 as amended: when, besides, the supervisor calls pause() only finitely
\* often, the run terminates with one of those statuses; every cycle raises
\* step by one and the model is invoked at most max_loop_count times.
C40_RunTerminatesAfterLastPause ==
    /\ (<>[][~ExternalPause]_vars) => <>Terminated
    /\ [](pc = "done" => Terminated)
    /\ [][(pc = "pop" /\ pc' # "pop") => step' = step + 1]_vars
    /\ [](nInvoke <= max_loop_count)

\* The run ended on max_loop_count although the loop had parked itself on the
\* way (a cycle without an execution): a resume() followed the pause.
C40_Witness ==
    /\ pc = "done"
    /\ exit = "max_loop_count"
    /\ status = "ERROR"
    /\ step = max_loop_count + 1
    /\ nInvoke = max_loop_count
    /\ nExecute < nInvoke
    /\ ~stopCalled

====
